---- MODULE Spec2Model ----
(***************************************************************************)
(* The relay server of pingpong-web (server.ts, the second file held in    *)
(* src/unnamed/part_001, lines 230-569): the room registry `rooms`, the     *)
(* socket.io room membership its emits are routed by, and one action per    *)
(* socket handler.  Lengths are in hundredths of a court unit (0.22 -> 22). *)
(***************************************************************************)
EXTENDS Integers, Sequences, FiniteSets, TLC

\* ------------------------------------------------------------------ bounds
NumSockets == 3    \* connections the server accepts in a run
NumRoomIds == 1    \* distinct strings generateRoomId returns in a run
NumRegistryIds == 2 \* distinct strings it returns in a run of the registry alone
MaxCreate == 2     \* createRoom requests in a run
MaxRelay == 2      \* paddleMove, ballUpdate and scoreUpdate messages in a run
MaxFrames == 12    \* rendered frames of the host's scene in a run of a match
MaxRallyFrames == 75   \* rendered frames of the host's scene in a rally at FastDeltas
MaxSessionFrames == 2   \* rendered frames of the two scenes in a session
MaxPaddleFrames == 8   \* rendered frames of the two scenes under the arrow keys
MaxGameFrames == 3     \* rendered frames of the single-player scene under the arrow keys
MaxPoints == 21        \* points played in a single-player game

\* connection identifiers (socket.id) and the strings generateRoomId can return
Sockets == 1..NumSockets
RoomIds == 101..(100 + NumRoomIds)
RegistryIds == 101..(100 + NumRegistryIds)

\* ------------------------------------------------------- program constants
BALL_Y == 22
PADDLE_Y == 15
HOST_Z == -900
GUEST_Z == 900

\* MultiplayerGameScene.tsx; lengths and speeds in 1/10000 of a court unit,
\* factors in percent, times in milliseconds, direction components in tenths
PADDLE_SPEED == 3000
BALL_SPEED == 5000
MAX_BALL_SPEED == 7000
BALL_RADIUS == 2200
COURT_WIDTH == 100000
COURT_LENGTH == 200000
COLLISION_BUFFER == 500
PADDLE_WIDTH == 20000
PADDLE_DEPTH == 3000
WALL_BOUNCE_DAMPENING == 98
PADDLE_BOUNCE_BOOST == 104
SYNC_RATE == 16
BASE_COLLISION_STEPS == 120
MAX_MOVE_PER_FRAME == 500
COLLISION_COOLDOWN_FRAMES == 1
POST_COLLISION_FREEZE_FRAMES == 1
FPS_UPDATE == 250
COUNTDOWN_STEPS == <<3, 2, 1>>

\* ------------------------------------------------------------ input values
\* ballState payloads a client may send (GameState['ball'])
BallStates ==
  { [x |-> 100, y |-> BALL_Y, z |-> 300, direction |-> [x |-> 0, y |-> 0, z |-> -1]] }

\* score payloads a client may send (GameState['score'])
Scores ==
  { [player1 |-> 1, player2 |-> 0] }

\* paddle positions a client may send
PaddlePositions ==
  { [x |-> 400, y |-> PADDLE_Y, z |-> GUEST_Z] }

\* frame deltas the render loop may report, in milliseconds
Deltas == { 200 }

\* the arrow keys held down during a frame
Keys == { "none", "left", "right", "both" }

\* frame deltas of a display that renders faster than the regular sync
FastDeltas == { 8 }

\* directions a paddle bounce may give the ball, before the sign of z is set:
\* (sin a, 0, cos a) for the bounce angle a of the hit point, |a| <= 60 degrees
Bounces == { [x |-> 0, z |-> 10], [x |-> 6, z |-> 8], [x |-> -6, z |-> 8] }

\* ------------------------------------------------------------------- state
VARIABLES
  status,    \* status[s]: "new" (not connected yet), "connected", "closed"
  rooms,     \* the registry: registered room id -> GameRoom
  joined,    \* socket.io adapter: joined[r] = the sockets that did socket.join(r)
  tornDown,  \* history: id -> players of the room a disconnect removed under it,
             \* until a createRoom registers the id again
  pre,       \* history: rooms and joined as they were when the last handler began
  last,      \* the handler that ran in the last step and its arguments
  emitted,   \* what that handler emitted, in order: <<[to, event, data, via]>>
  nCreate,   \* createRoom requests handled so far
  nRelay,    \* paddleMove, ballUpdate and scoreUpdate messages handled so far
  scenes,    \* scenes[c]: the state of connection c's mounted MultiplayerGameScene
  net,       \* messages under way: net.up[c] from c to the server, net.down[c] back
  did,       \* history: the last client-side event, the scenes before it, what it sent
  nFrame,    \* frames the host's scene has rendered so far
  single     \* the state of the single-player GameScene

vars == <<status, rooms, joined, tornDown, pre, last, emitted, nCreate, nRelay,
          scenes, net, did, nFrame, single>>

\* ----------------------------------------------------------------- helpers
Range(f) == { f[i] : i \in DOMAIN f }

\* Array.prototype.includes
Includes(seq, x) == \E i \in DOMAIN seq : seq[i] = x

RECURSIVE SetToSeq(_)
SetToSeq(S) ==
  IF S = {} THEN <<>>
  ELSE LET m == CHOOSE x \in S : \A y \in S : x <= y
       IN  <<m>> \o SetToSeq(S \ {m})

RECURSIVE Flatten(_)
Flatten(ss) == IF ss = <<>> THEN <<>> ELSE Head(ss) \o Flatten(Tail(ss))

\* a function with key k set to v (Map.set, obj[k] = v)
Put(f, k, v) == [x \in DOMAIN f \cup {k} |-> IF x = k THEN v ELSE f[x]]

\* a function without the keys in K (Map.delete)
Without(f, K) == [x \in DOMAIN f \ K |-> f[x]]

NoData == <<>>

\* createGameState()
createGameState ==
  [ ball    |-> [x |-> 0, y |-> BALL_Y, z |-> 0, direction |-> [x |-> 0, y |-> 0, z |-> 1]],
    paddles |-> <<>>,
    score   |-> [player1 |-> 0, player2 |-> 0] ]

\* generateRoomId(): Math.random() decides; any id can come out, registered or not
generateRoomId == RoomIds \cup RegistryIds

\* the sockets in socket.io room `name` given membership `j` and statuses `st`:
\* every connected socket is alone in the room named by its own id
IoRoom(j, st, name) ==
  IF name \in Sockets THEN (IF st[name] = "connected" THEN {name} ELSE {})
  ELSE j[name]

Deliveries(recipients, via, ev, d) ==
  [ i \in 1..Cardinality(recipients) |->
      [to |-> SetToSeq(recipients)[i], event |-> ev, data |-> d, via |-> via] ]

\* socket.emit(ev, d)
SocketEmit(s, ev, d) == Deliveries({s}, s, ev, d)

\* socket.to(r).emit(ev, d): everyone in socket.io room r except the sender
SocketToEmit(j, st, s, r, ev, d) == Deliveries(IoRoom(j, st, r) \ {s}, r, ev, d)

\* io.to(r).emit(ev, d): everyone in socket.io room r
IoToEmit(j, st, r, ev, d) == Deliveries(IoRoom(j, st, r), r, ev, d)

Op(op, s, r, arg) == [op |-> op, sender |-> s, roomId |-> r, arg |-> arg]

\* `null` of lastScorer
Null == "null"

\* the single-player GameScene (src/unnamed/part_003); times in microseconds,
\* the paddle's velocity in 1/10000 of a court unit per sixtieth of a second
WINNING_SCORE == 11
COOLDOWN_TIME == 1500000
MAX_DELTA == 6944
PADDLE_ACCELERATION == 5500
PADDLE_DECELERATION == 1000
MOVEMENT_THRESHOLD == 1000

\* the scene as its first effects leave it: 0-0, the first cooldown running,
\* the ball at the centre spot, no requestAnimationFrame callback pending
GameSceneAtStart ==
  [ score |-> [player1 |-> 0, player2 |-> 0], gameStatus |-> "playing",
    cooldown |-> COOLDOWN_TIME, lastScorer |-> Null, ballAt |-> "centre",
    pending |-> <<>>, paddleX |-> 0, paddleVelocity |-> 0 ]

\* -------------------------------------------------------------------- Init
Init ==
  /\ status = [s \in Sockets |-> "new"]
  /\ rooms = <<>>
  /\ joined = [r \in generateRoomId |-> {}]
  /\ tornDown = <<>>
  /\ pre = [rooms |-> <<>>, joined |-> [r \in generateRoomId |-> {}]]
  /\ last = Op("init", 0, 0, NoData)
  /\ emitted = <<>>
  /\ nCreate = 0
  /\ nRelay = 0
  /\ scenes = <<>>
  /\ net = [up |-> <<>>, down |-> <<>>]
  /\ did = [event |-> "none", client |-> 0, was |-> <<>>, sent |-> <<>>, landed |-> [x |-> 0, z |-> 0], collision |-> "none", suppressed |-> FALSE]
  /\ nFrame = 0
  /\ single = GameSceneAtStart

\* ----------------------------------------------------------------- actions
\* io.on('connection'): connections are numbered in the order they are accepted
Connect(s) ==
  /\ status[s] = "new"
  /\ \A t \in Sockets : t < s => status[t] # "new"
  /\ status' = [status EXCEPT ![s] = "connected"]
  /\ emitted' = SocketEmit(s, "connect_ack", [id |-> s])
  /\ last' = Op("connection", s, 0, NoData)
  /\ UNCHANGED <<rooms, joined, tornDown>>

\* a disconnect handler without the membership test
RoomsOf_Every(rs, s) == DOMAIN rs

\* a disconnect handler that only looks at the rooms the socket hosts
RoomsOf_HostedOnly(rs, s) == { r \in DOMAIN rs : rs[r].players[1] = s }

\* the rooms the disconnect handler acts on: room.players.includes(socket.id)
RoomsOf(rs, s) == { r \in DOMAIN rs : Includes(rs[r].players, s) }

\* room.isActive = false, for every room in `hit`
Deactivate(rs, hit) ==
  [r \in DOMAIN rs |-> IF r \in hit THEN [rs[r] EXCEPT !.isActive = FALSE] ELSE rs[r]]

\* a disconnect handler that forgets rooms.delete
DeleteRooms_Forgotten(rs, hit) == rs

\* rooms.delete(roomId), for every room in `hit`
DeleteRooms(rs, hit) == Without(rs, hit)

\* socket.on('disconnect'): socket.io has already taken the socket out of every
\* socket.io room when the handler runs
Disconnect(s) ==
  /\ status[s] = "connected"
  /\ LET st == [status EXCEPT ![s] = "closed"]
         j  == [r \in DOMAIN joined |-> joined[r] \ {s}]
         hit == RoomsOf(rooms, s)
         deactivated == Deactivate(rooms, hit)
     IN  /\ status' = st
         /\ joined' = j
         /\ rooms' = DeleteRooms(deactivated, hit)
         /\ tornDown' = [r \in DOMAIN tornDown \cup hit |->
                           IF r \in hit THEN rooms[r].players ELSE tornDown[r]]
         /\ emitted' = Flatten([ i \in 1..Cardinality(hit) |->
                          SocketToEmit(j, st, s, SetToSeq(hit)[i], "playerDisconnected", NoData) ])
         /\ last' = Op("disconnect", s, 0, [r \in hit |-> deactivated[r]])

\* socket.on('createRoom')
CreateRoom(s, roomId) ==
  /\ status[s] = "connected"
  /\ roomId \in generateRoomId
  /\ LET gameState == [createGameState EXCEPT
                         !.paddles = Put(@, s, [x |-> 0, y |-> PADDLE_Y, z |-> HOST_Z])]
         room == [ id |-> roomId, players |-> <<s>>, gameState |-> gameState,
                   isActive |-> FALSE, readyPlayers |-> {} ]
     IN  /\ rooms' = Put(rooms, roomId, room)
         /\ joined' = [joined EXCEPT ![roomId] = @ \cup {s}]
         /\ emitted' = SocketEmit(s, "roomCreated", [roomId |-> roomId, players |-> <<s>>])
  /\ tornDown' = Without(tornDown, {roomId})
  /\ last' = Op("createRoom", s, roomId, NoData)
  /\ UNCHANGED status

\* a capacity check that is off by one
RoomIsFull_OffByOne(room) == Len(room.players) > 2

\* joinRoom's capacity check
RoomIsFull(room) == Len(room.players) >= 2

\* a join that puts the newcomer in front
Push_AtFront(players, s) == <<s>> \o players

\* room.players.push(socket.id)
Push(players, s) == Append(players, s)

\* socket.on('joinRoom')
JoinRoom(s, roomId) ==
  /\ status[s] = "connected"
  /\ last' = Op("joinRoom", s, roomId, NoData)
  /\ IF roomId \notin DOMAIN rooms THEN
       /\ emitted' = SocketEmit(s, "error", "Room not found")
       /\ UNCHANGED <<status, rooms, joined, tornDown>>
     ELSE IF RoomIsFull(rooms[roomId]) THEN
       /\ emitted' = SocketEmit(s, "error", "Room is full")
       /\ UNCHANGED <<status, rooms, joined, tornDown>>
     ELSE
       LET room == [rooms[roomId] EXCEPT
                      !.players = Push(@, s),
                      !.gameState.paddles = Put(@, s, [x |-> 0, y |-> PADDLE_Y, z |-> GUEST_Z])]
           j == [joined EXCEPT ![roomId] = @ \cup {s}]
       IN  /\ rooms' = [rooms EXCEPT ![roomId] = room]
           /\ joined' = j
           /\ emitted' = IoToEmit(j, status, roomId, "playerJoined",
                                  [players |-> room.players, gameState |-> room.gameState])
           /\ UNCHANGED <<status, tornDown>>

\* a head-count check that only refuses an empty room
EnoughPlayers_AnyPlayer(room) == Len(room.players) >= 1

\* startGame's head-count check
EnoughPlayers(room) == Len(room.players) = 2

\* a startGame that leaves the readySet of an earlier start in place
Started_KeepsReady(room) == [room EXCEPT !.isActive = TRUE]

\* a startGame that leaves the room inactive
Started_Inactive(room) == [room EXCEPT !.readyPlayers = {}]

\* what a successful startGame does to the room: isActive = true, readyPlayers.clear()
Started(room) == [room EXCEPT !.isActive = TRUE, !.readyPlayers = {}]

\* socket.on('startGame')
StartGame(s, roomId) ==
  /\ status[s] = "connected"
  /\ last' = Op("startGame", s, roomId, NoData)
  /\ IF roomId \notin DOMAIN rooms THEN
       /\ emitted' = SocketEmit(s, "error", "Room not found")
       /\ UNCHANGED <<status, rooms, joined, tornDown>>
     ELSE IF ~EnoughPlayers(rooms[roomId]) THEN
       /\ emitted' = SocketEmit(s, "error", "Not enough players to start game")
       /\ UNCHANGED <<status, rooms, joined, tornDown>>
     ELSE IF s # rooms[roomId].players[1] THEN
       /\ emitted' = SocketEmit(s, "error", "Only host can start the game")
       /\ UNCHANGED <<status, rooms, joined, tornDown>>
     ELSE
       LET room == Started(rooms[roomId])
       IN  /\ rooms' = [rooms EXCEPT ![roomId] = room]
           /\ emitted' = Flatten([ i \in 1..Len(room.players) |->
                            IoToEmit(joined, status, room.players[i], "gameStart",
                                     [ gameState |-> room.gameState, players |-> room.players,
                                       isHost |-> (i = 1), playerIndex |-> i - 1 ]) ])
           /\ UNCHANGED <<status, joined, tornDown>>

\* paddleMove's sender check: room.gameState.paddles[socket.id]
HasPaddle(room, s) == s \in DOMAIN room.gameState.paddles

\* a paddleMove that writes the position to every paddle of the room
PaddleMove_EveryPaddle(s, roomId, position) ==
  /\ status[s] = "connected"
  /\ last' = Op("paddleMove", s, roomId, position)
  /\ IF roomId \in DOMAIN rooms /\ HasPaddle(rooms[roomId], s) THEN
       /\ rooms' = [rooms EXCEPT ![roomId].gameState.paddles =
                                   [p \in DOMAIN @ |-> position]]
       /\ emitted' = SocketToEmit(joined, status, s, roomId, "opponentPaddleMove",
                                  [playerId |-> s, position |-> position])
     ELSE
       /\ emitted' = <<>>
       /\ UNCHANGED rooms
  /\ UNCHANGED <<status, joined, tornDown>>

\* a paddleMove relayed with io.to: to the sender too
PaddleMove_ToSenderToo(s, roomId, position) ==
  /\ status[s] = "connected"
  /\ last' = Op("paddleMove", s, roomId, position)
  /\ IF roomId \in DOMAIN rooms /\ HasPaddle(rooms[roomId], s) THEN
       /\ rooms' = [rooms EXCEPT ![roomId].gameState.paddles[s] = position]
       /\ emitted' = IoToEmit(joined, status, roomId, "opponentPaddleMove",
                              [playerId |-> s, position |-> position])
     ELSE
       /\ emitted' = <<>>
       /\ UNCHANGED rooms
  /\ UNCHANGED <<status, joined, tornDown>>

\* socket.on('paddleMove')
PaddleMove(s, roomId, position) ==
  /\ status[s] = "connected"
  /\ last' = Op("paddleMove", s, roomId, position)
  /\ IF roomId \in DOMAIN rooms /\ HasPaddle(rooms[roomId], s) THEN
       /\ rooms' = [rooms EXCEPT ![roomId].gameState.paddles[s] = position]
       /\ emitted' = SocketToEmit(joined, status, s, roomId, "opponentPaddleMove",
                                  [playerId |-> s, position |-> position])
     ELSE
       /\ emitted' = <<>>
       /\ UNCHANGED rooms
  /\ UNCHANGED <<status, joined, tornDown>>

\* a sender check that lets any listed participant through
IsHost_AnyParticipant(room, s) == Includes(room.players, s)

\* the sender check of ballUpdate and scoreUpdate: room.players[0] === socket.id
IsHost(room, s) == room.players[1] = s

\* a ballUpdate relayed the way scoreUpdate is, with io.to: to the sender too
BallUpdate_ToSenderToo(s, roomId, ballState) ==
  /\ status[s] = "connected"
  /\ last' = Op("ballUpdate", s, roomId, ballState)
  /\ IF roomId \in DOMAIN rooms /\ IsHost(rooms[roomId], s) THEN
       /\ rooms' = [rooms EXCEPT ![roomId].gameState.ball = ballState]
       /\ emitted' = IoToEmit(joined, status, roomId, "ballSync", ballState)
     ELSE
       /\ emitted' = <<>>
       /\ UNCHANGED rooms
  /\ UNCHANGED <<status, joined, tornDown>>

\* socket.on('ballUpdate')
BallUpdate(s, roomId, ballState) ==
  /\ status[s] = "connected"
  /\ last' = Op("ballUpdate", s, roomId, ballState)
  /\ IF roomId \in DOMAIN rooms /\ IsHost(rooms[roomId], s) THEN
       /\ rooms' = [rooms EXCEPT ![roomId].gameState.ball = ballState]
       /\ emitted' = SocketToEmit(joined, status, s, roomId, "ballSync", ballState)
     ELSE
       /\ emitted' = <<>>
       /\ UNCHANGED rooms
  /\ UNCHANGED <<status, joined, tornDown>>

\* a scoreUpdate relayed the way ballUpdate is, with socket.to: not to the sender
ScoreUpdate_NotToSender(s, roomId, score) ==
  /\ status[s] = "connected"
  /\ last' = Op("scoreUpdate", s, roomId, score)
  /\ IF roomId \in DOMAIN rooms /\ IsHost(rooms[roomId], s) THEN
       /\ rooms' = [rooms EXCEPT ![roomId].gameState.score = score]
       /\ emitted' = SocketToEmit(joined, status, s, roomId, "scoreSync", score)
     ELSE
       /\ emitted' = <<>>
       /\ UNCHANGED rooms
  /\ UNCHANGED <<status, joined, tornDown>>

\* socket.on('scoreUpdate')
ScoreUpdate(s, roomId, score) ==
  /\ status[s] = "connected"
  /\ last' = Op("scoreUpdate", s, roomId, score)
  /\ IF roomId \in DOMAIN rooms /\ IsHost(rooms[roomId], s) THEN
       /\ rooms' = [rooms EXCEPT ![roomId].gameState.score = score]
       /\ emitted' = IoToEmit(joined, status, roomId, "scoreSync", score)
     ELSE
       /\ emitted' = <<>>
       /\ UNCHANGED rooms
  /\ UNCHANGED <<status, joined, tornDown>>

\* the game state the 'ready' handler installs once everyone is ready
ReadyResetState(players) ==
  [ ball    |-> [x |-> 0, y |-> BALL_Y, z |-> 0, direction |-> [x |-> 0, y |-> 0, z |-> 0]],
    paddles |-> [p \in Range(players) |-> [x |-> 0, y |-> PADDLE_Y, z |-> 0]],
    score   |-> [player1 |-> 0, player2 |-> 0] ]

\* a 'ready' handler without the room.isActive check
GameStarted_Unchecked(room) == TRUE

\* the 'ready' handler's check that startGame has run: room.isActive
GameStarted(room) == room.isActive

\* a barrier that opens at the first ready
AllReady_AtFirst(ready, players) == Cardinality(ready) >= 1

\* the barrier of 'ready': room.readyPlayers.size === room.players.length
AllReady(ready, players) == Cardinality(ready) = Len(players)

\* socket.on('ready')
Ready(s, roomId) ==
  /\ status[s] = "connected"
  /\ last' = Op("ready", s, roomId, NoData)
  /\ IF roomId \notin DOMAIN rooms THEN
       /\ emitted' = SocketEmit(s, "error", "Room not found")
       /\ UNCHANGED rooms
     ELSE IF ~GameStarted(rooms[roomId]) THEN
       /\ emitted' = SocketEmit(s, "error", "Game not started yet")
       /\ UNCHANGED rooms
     ELSE IF ~Includes(rooms[roomId].players, s) THEN
       /\ emitted' = SocketEmit(s, "error", "Player not in room")
       /\ UNCHANGED rooms
     ELSE
       LET ready == rooms[roomId].readyPlayers \cup {s}
           players == rooms[roomId].players
       IN  IF AllReady(ready, players) THEN
             LET room == [rooms[roomId] EXCEPT !.readyPlayers = ready,
                                               !.gameState = ReadyResetState(players)]
             IN  /\ rooms' = [rooms EXCEPT ![roomId] = room]
                 /\ emitted' = IoToEmit(joined, status, roomId, "allPlayersReady",
                                        [gameState |-> room.gameState, players |-> players])
           ELSE
             /\ rooms' = [rooms EXCEPT ![roomId].readyPlayers = ready]
             /\ emitted' = <<>>
  /\ UNCHANGED <<status, joined, tornDown>>

\* the handlers whose parameter is destructured in the parameter list, outside
\* the try: ({ roomId }), ({ roomId, position }), ({ roomId, ballState }), ...
Destructuring == {"startGame", "paddleMove", "ballUpdate", "scoreUpdate", "ready"}

\* one of those events arrives without a payload object: the destructuring
\* throws a TypeError before the try is entered, nothing catches it (server.ts
\* installs no uncaughtException handler) and the process exits; its registry
\* and every connection go with it
Uncaught(s, event) ==
  /\ status[s] = "connected"
  /\ event \in Destructuring
  /\ status' = [c \in Sockets |-> "closed"]
  /\ rooms' = <<>>
  /\ joined' = [r \in DOMAIN joined |-> {}]
  /\ emitted' = <<>>
  /\ last' = Op("uncaught", s, 0, event)
  /\ UNCHANGED tornDown

\* what every step records and what it leaves of the run's budget
Handled == pre' = [rooms |-> rooms, joined |-> joined]
Offstage == UNCHANGED <<scenes, net, did, nFrame, single>>
Request == Handled /\ Offstage /\ UNCHANGED <<nCreate, nRelay>>
Creation == Handled /\ Offstage /\ nCreate < MaxCreate /\ nCreate' = nCreate + 1 /\ UNCHANGED nRelay
Relay == Handled /\ Offstage /\ nRelay < MaxRelay /\ nRelay' = nRelay + 1 /\ UNCHANGED nCreate

Next ==
  \/ \E s \in Sockets : Connect(s) /\ Request
  \/ \E s \in Sockets : Disconnect(s) /\ Request
  \/ \E s \in Sockets, r \in RoomIds : CreateRoom(s, r) /\ Creation
  \/ \E s \in Sockets, r \in RoomIds : JoinRoom(s, r) /\ Request
  \/ \E s \in Sockets, r \in RoomIds : StartGame(s, r) /\ Request
  \/ \E s \in Sockets, r \in RoomIds : Ready(s, r) /\ Request
  \/ \E s \in Sockets, r \in RoomIds, p \in PaddlePositions : PaddleMove(s, r, p) /\ Relay
  \/ \E s \in Sockets, r \in RoomIds, b \in BallStates : BallUpdate(s, r, b) /\ Relay
  \/ \E s \in Sockets, r \in RoomIds, sc \in Scores : ScoreUpdate(s, r, sc) /\ Relay
  \/ \E s \in Sockets, ev \in Destructuring : Uncaught(s, ev) /\ Request

Spec == Init /\ [][Next]_vars

\* the handlers that add and remove rooms and participants, and the two that
\* open a game, over more room ids
NextRegistry ==
  \/ \E s \in Sockets : Connect(s) /\ Request
  \/ \E s \in Sockets : Disconnect(s) /\ Request
  \/ \E s \in Sockets, r \in RegistryIds : CreateRoom(s, r) /\ Creation
  \/ \E s \in Sockets, r \in RegistryIds : JoinRoom(s, r) /\ Request
  \/ \E s \in Sockets, r \in RegistryIds : StartGame(s, r) /\ Request
  \/ \E s \in Sockets, r \in RegistryIds : Ready(s, r) /\ Request

SpecRegistry == Init /\ [][NextRegistry]_vars

\* ------------------------------------------------- MultiplayerGameScene.tsx
\* A match: room MatchRoom with Host at index 0 and Guest at index 1, both
\* scenes mounted and past allPlayersReady.  The host's scene renders frames and
\* owns the ball; every client handles its timers and the messages the server
\* sends it.  Of what a scene emits, the scoreUpdate messages are carried to the
\* server here; ballUpdate and paddleMove are recorded in did.sent.
MatchRoom == 101
Host == 1
Guest == 2

Min(a, b) == IF a < b THEN a ELSE b
Abs(a) == IF a < 0 THEN -a ELSE a
CeilDiv(a, b) == (a + b - 1) \div b

\* `null` of countdown
NoCountdown == 0

\* the component's state once allPlayersReady has been handled; the host chose
\* its first direction in its gameStart handler.  lastFpsUpdate and lastSyncTime
\* are still 0, so the first frame finds at least 250 ms elapsed since either;
\* moved: the paddle has moved, so player1Velocity may differ from 0
SceneAtStart(c, dir) ==
  [ isHost |-> (c = Host), gameStatus |-> "playing",
    score |-> [player1 |-> 0, player2 |-> 0],
    lastScorer |-> Null, scoreCooldown |-> FALSE, countdown |-> NoCountdown,
    countdownTimers |-> <<>>,
    ball |-> [x |-> 0, z |-> 0], ballDirection |-> dir, ballSpeed |-> BALL_SPEED,
    paddleX |-> 0, moved |-> FALSE, opponentX |-> 0, sinceSync |-> SYNC_RATE,
    frameCount |-> 0, sinceFpsUpdate |-> FPS_UPDATE,
    lastCollisionFrame |-> 0, postCollisionFreezeCounter |-> 0 ]

Message(ev, d) == [event |-> ev, data |-> d]

\* const steps = Math.min(Math.ceil(BASE_COLLISION_STEPS * speedRatio), BASE_COLLISION_STEPS * 2)
Steps(speed) ==
  Min(CeilDiv(BASE_COLLISION_STEPS * speed, BALL_SPEED), BASE_COLLISION_STEPS * 2)

\* the length of moveAmount: speed * stepDelta * 60, limited to MAX_MOVE_PER_FRAME
StepLength(speed, delta, steps) ==
  Min((speed * 60 * delta) \div (steps * 1000), MAX_MOVE_PER_FRAME)

LeftWall == -(COURT_WIDTH \div 2) + BALL_RADIUS + COLLISION_BUFFER
RightWall == (COURT_WIDTH \div 2) - BALL_RADIUS - COLLISION_BUFFER

\* checkWallCollision: the step would end at or beyond a side wall
checkWallCollision(nextPosition) ==
  nextPosition.x <= LeftWall \/ nextPosition.x >= RightWall

\* the paddles in the host's scene: its own (player1) and the opponent's
Player1Z == -(COURT_LENGTH \div 2) + 10000
Player2Z == (COURT_LENGTH \div 2) - 10000

\* checkPaddleCollision: not in the frame cooldown, the ball moving towards the
\* paddle, and the step ending inside the paddle's box (the ray test, for steps
\* no longer than MAX_MOVE_PER_FRAME)
checkPaddleCollision(sc, paddleX, paddleZ, isPlayer1, lastPosition, nextPosition) ==
  /\ ~(sc.frameCount - sc.lastCollisionFrame < COLLISION_COOLDOWN_FRAMES)
  /\ IF isPlayer1
     THEN sc.ballDirection.z < 0 /\ lastPosition.z > paddleZ - PADDLE_DEPTH * 2
     ELSE sc.ballDirection.z > 0 /\ lastPosition.z < paddleZ + PADDLE_DEPTH * 2
  /\ 2 * Abs(nextPosition.x - paddleX) <= PADDLE_WIDTH + COLLISION_BUFFER
  /\ 2 * Abs(nextPosition.z - paddleZ) <= PADDLE_DEPTH + COLLISION_BUFFER

\* ballSpeedRef.current *= WALL_BOUNCE_DAMPENING
WallBounceSpeed(speed) == (speed * WALL_BOUNCE_DAMPENING) \div 100

\* Math.min(ballSpeedRef.current * PADDLE_BOUNCE_BOOST, MAX_BALL_SPEED)
PaddleBounceSpeed(speed) == Min((speed * PADDLE_BOUNCE_BOOST) \div 100, MAX_BALL_SPEED)

\* the sub-step loop of useFrame up to its first collision: every step moves the
\* ball by the same moveAmount; the loop ends at the first step that would
\* collide, which leaves the ball where that step began
Integrate(sc, steps, delta) ==
  LET len == StepLength(sc.ballSpeed, delta, steps)
      moveAmount == [ x |-> (sc.ballDirection.x * len) \div 10,
                      z |-> (sc.ballDirection.z * len) \div 10 ]
      After(i) == [x |-> sc.ball.x + i * moveAmount.x, z |-> sc.ball.z + i * moveAmount.z]
      Wall(i) == checkWallCollision(After(i))
      Paddle1(i) == checkPaddleCollision(sc, sc.paddleX, Player1Z, TRUE, After(i - 1), After(i))
      Paddle2(i) == checkPaddleCollision(sc, sc.opponentX, Player2Z, FALSE, After(i - 1), After(i))
      colliding == { i \in 1..steps : Wall(i) \/ Paddle1(i) \/ Paddle2(i) }
  IN  IF colliding = {}
      THEN [ position |-> After(steps), collision |-> "none", nextPosition |-> After(steps) ]
      ELSE
        LET i == CHOOSE k \in colliding : \A j \in colliding : k <= j
        IN  [ position |-> After(i - 1),
              collision |-> IF Wall(i) THEN "wall" ELSE IF Paddle1(i) THEN "player1" ELSE "player2",
              nextPosition |-> After(i) ]

\* what the collision that ended the loop did to the ball: the direction and the
\* speed of the next render, and the position the immediate ballUpdate reports.
\* bounce is the direction checkPaddleCollision computes for player1 from the
\* hit point and the paddle's velocity; for the opponent's paddle zDir is -1
Collide(sc, hit, bounce) ==
  LET pushDistance == BALL_RADIUS + PADDLE_DEPTH \div 2 + COLLISION_BUFFER
  IN  IF hit.collision = "wall" THEN
        [ at |-> hit.nextPosition,
          direction |-> [x |-> -sc.ballDirection.x, z |-> sc.ballDirection.z],
          speed |-> WallBounceSpeed(sc.ballSpeed) ]
      ELSE IF hit.collision = "player1" THEN
        [ at |-> [x |-> hit.nextPosition.x, z |-> Player1Z + pushDistance],
          direction |-> [x |-> bounce.x, z |-> bounce.z],
          speed |-> PaddleBounceSpeed(sc.ballSpeed) ]
      ELSE IF hit.collision = "player2" THEN
        [ at |-> [x |-> hit.nextPosition.x, z |-> Player2Z - pushDistance],
          direction |-> [x |-> bounce.x, z |-> -bounce.z],
          speed |-> PaddleBounceSpeed(sc.ballSpeed) ]
      ELSE
        [ at |-> hit.nextPosition, direction |-> sc.ballDirection, speed |-> sc.ballSpeed ]

\* the directions a paddle can give the ball in this frame; without a paddle
\* collision no direction is computed
BouncesOf(hit) ==
  IF hit.collision \in {"player1", "player2"} THEN Bounces ELSE { [x |-> 0, z |-> 10] }

BallState(position, direction, speed) ==
  [x |-> position.x, z |-> position.z, direction |-> direction, speed |-> speed]

\* a countdown whose final timer is never started
CountdownTimers_NoFinal(sc) ==
  [ i \in 1..Len(COUNTDOWN_STEPS) |-> [fires |-> "step", step |-> COUNTDOWN_STEPS[i]] ]

\* the timers handleScoring starts: one per countdown step, then the final one,
\* whose callback closes over the lastScorer of the render that scored
CountdownTimers(sc) ==
  [ i \in 1..Len(COUNTDOWN_STEPS) |-> [fires |-> "step", step |-> COUNTDOWN_STEPS[i]] ]
    \o << [fires |-> "final", lastScorer |-> sc.lastScorer] >>

\* a handleScoring that leaves the ball where it crossed the baseline
handleScoring_BallStays(sc, scorer) ==
  LET newScore == [sc.score EXCEPT ![scorer] = @ + 1]
  IN  [ scene |-> [sc EXCEPT !.score = newScore, !.lastScorer = scorer,
                             !.ballSpeed = BALL_SPEED, !.paddleX = 0,
                             !.moved = @ \/ sc.paddleX # 0,
                             !.scoreCooldown = TRUE, !.countdown = 3,
                             !.countdownTimers = CountdownTimers(sc) ],
        sent |-> << Message("scoreUpdate", [roomId |-> MatchRoom, score |-> newScore]),
                    Message("paddleMove", [x |-> 0]) >> ]

\* handleScoring(scorer); setTimeout leaves earlier timers alone, the handler
\* clears countdownTimers before it starts the new ones
handleScoring(sc, scorer) ==
  LET newScore == [sc.score EXCEPT ![scorer] = @ + 1]
  IN  [ scene |-> [sc EXCEPT !.score = newScore, !.lastScorer = scorer,
                             !.ball = [x |-> 0, z |-> 0], !.ballSpeed = BALL_SPEED,
                             !.paddleX = 0, !.moved = @ \/ sc.paddleX # 0,
                             !.scoreCooldown = TRUE, !.countdown = 3,
                             !.countdownTimers = CountdownTimers(sc) ],
        sent |-> << Message("scoreUpdate", [roomId |-> MatchRoom, score |-> newScore]),
                    Message("paddleMove", [x |-> 0]) >> ]

\* the scoring checks at the end of a frame: who scores, if anybody
Scorer(position) ==
  IF position.z <= -(COURT_LENGTH \div 2) - BALL_RADIUS THEN "player2"
  ELSE IF position.z >= (COURT_LENGTH \div 2) + BALL_RADIUS THEN "player1"
  ELSE Null

ScoreUpdates(sent) == SelectSeq(sent, LAMBDA m : m.event = "scoreUpdate")

\* the paddle part of useFrame: moveDelta, the keys, the clamp
Clamp(x, lo, hi) == IF x < lo THEN lo ELSE IF x > hi THEN hi ELSE x

MoveDelta(delta) == Min((PADDLE_SPEED * 60 * delta) \div 1000, PADDLE_SPEED * 2)

\* a targetX that is not clamped
TargetX_Unclamped(sc, keys, delta) ==
  LET left == IF keys \in {"left", "both"}
              THEN (IF sc.isHost THEN -MoveDelta(delta) ELSE MoveDelta(delta)) ELSE 0
      right == IF keys \in {"right", "both"}
               THEN (IF sc.isHost THEN MoveDelta(delta) ELSE -MoveDelta(delta)) ELSE 0
  IN  sc.paddleX + left + right

TargetX(sc, keys, delta) ==
  LET left == IF keys \in {"left", "both"}
              THEN (IF sc.isHost THEN -MoveDelta(delta) ELSE MoveDelta(delta)) ELSE 0
      right == IF keys \in {"right", "both"}
               THEN (IF sc.isHost THEN MoveDelta(delta) ELSE -MoveDelta(delta)) ELSE 0
  IN  Clamp(sc.paddleX + left + right,
            -(COURT_WIDTH \div 2) + PADDLE_WIDTH \div 2, (COURT_WIDTH \div 2) - PADDLE_WIDTH \div 2)

\* the intervals the regular sync may require: SYNC_RATE while player1Velocity is
\* 0, SYNC_RATE or SYNC_RATE / 2 once the paddle has moved
SyncIntervals(sc) == IF sc.moved THEN {SYNC_RATE, SYNC_RATE \div 2} ELSE {SYNC_RATE}

PaddleMoves(sent) == SelectSeq(sent, LAMBDA m : m.event = "paddleMove")
BallUpdates(sent) == SelectSeq(sent, LAMBDA m : m.event = "ballUpdate")

\* what a step leaves in did
Did(event, c, sent, landed, collision, suppressed) ==
  [ event |-> event, client |-> c, was |-> scenes, sent |-> sent, landed |-> landed,
    collision |-> collision, suppressed |-> suppressed ]

\* the scene after the first part of useFrame: the FPS counter and the paddle
Rendered(sc, delta, keys) ==
  LET tick == sc.sinceFpsUpdate + delta >= FPS_UPDATE
      targetX == TargetX(sc, keys, delta)
  IN  [sc EXCEPT !.frameCount = IF tick THEN 0 ELSE @ + 1,
                 !.sinceFpsUpdate = IF tick THEN 0 ELSE @ + delta,
                 !.paddleX = targetX,
                 !.moved = @ \/ targetX # sc.paddleX]

\* the sub-step loop once more, with the frame cooldown of checkPaddleCollision
\* lifted: did the cooldown hide a paddle the ball ran into
Suppressed(sc, hit, delta) ==
  LET lifted == Integrate([sc EXCEPT !.lastCollisionFrame = sc.frameCount - COLLISION_COOLDOWN_FRAMES],
                          Steps(sc.ballSpeed), delta)
  IN  lifted.collision \in {"player1", "player2"} /\ lifted # hit

\* the host's scene after the sub-step loop, given what ended the loop
Moved(sc, hit, run, delta, syncNeeded) ==
  LET paddle == hit.collision \in {"player1", "player2"}
  IN  [sc EXCEPT !.ball = hit.position,
                 !.ballDirection = run.direction,
                 !.ballSpeed = run.speed,
                 !.sinceSync = IF syncNeeded THEN 0 ELSE Min(@ + delta, SYNC_RATE),
                 !.lastCollisionFrame = IF paddle THEN sc.frameCount ELSE @,
                 !.postCollisionFreezeCounter = IF paddle THEN POST_COLLISION_FREEZE_FRAMES ELSE @]

\* what the host's frame emits before the scoring checks: the immediate
\* ballUpdate of a paddle collision, then the regular sync if it is due
Synced(sc, hit, run, syncNeeded) ==
  (IF hit.collision \in {"player1", "player2"}
   THEN << Message("ballUpdate", BallState(run.at, run.direction, run.speed)) >>
   ELSE <<>>)
  \o (IF syncNeeded
      THEN << Message("ballUpdate", BallState(hit.position, sc.ballDirection, run.speed)) >>
      ELSE <<>>)

\* the scoring checks at the end of the host's frame
Scored(moved) ==
  IF Scorer(moved.ball) = Null THEN [scene |-> moved, sent |-> <<>>]
  ELSE handleScoring(moved, Scorer(moved.ball))

\* the messages of a frame as the socket carries them to the server
Uplinked(c, sent) ==
  [ i \in 1..Len(sent) |->
      IF sent[i].event = "paddleMove"
      THEN Message("paddleMove",
                   [ roomId |-> MatchRoom,
                     position |-> [x |-> sent[i].data.x, y |-> PADDLE_Y,
                                   z |-> IF c = Host THEN Player1Z ELSE Player2Z] ])
      ELSE IF sent[i].event = "ballUpdate"
      THEN Message("ballUpdate", [roomId |-> MatchRoom, ballState |-> sent[i].data])
      ELSE sent[i] ]

\* what the network model follows of the messages a frame emits: all of them,
\* or the scoreUpdate messages alone
Carried(c, sent, all) == IF all THEN Uplinked(c, sent) ELSE ScoreUpdates(sent)

\* useFrame of client c: the FPS counter, the paddle, on the host the ball, the
\* regular sync and the scoring checks, and the paddleMove that ends the frame
FrameOf(c, delta, keys, all) ==
  /\ c \in DOMAIN scenes
  /\ scenes[c].gameStatus = "playing" /\ ~scenes[c].scoreCooldown
  /\ nFrame' = nFrame + 1
  /\ \E sc \in { Rendered(scenes[c], delta, keys) } :
       IF ~sc.isHost THEN
         /\ scenes' = [scenes EXCEPT ![c] = sc]
         /\ did' = Did("frame", c, << Message("paddleMove", [x |-> sc.paddleX]) >>, sc.ball, "none", FALSE)
         /\ net' = [net EXCEPT !.up[c] = @ \o Carried(c, << Message("paddleMove", [x |-> sc.paddleX]) >>, all)]
       ELSE IF sc.postCollisionFreezeCounter > 0 THEN
         /\ scenes' = [scenes EXCEPT ![c] = [sc EXCEPT !.postCollisionFreezeCounter = @ - 1]]
         /\ did' = Did("frame", c, <<>>, sc.ball, "none", FALSE)
         /\ UNCHANGED net
       ELSE
         \E hit \in { Integrate(sc, Steps(sc.ballSpeed), delta) } :
         \E bounce \in BouncesOf(hit), interval \in SyncIntervals(sc) :
         \E run \in { Collide(sc, hit, bounce) } :
         \E syncNeeded \in { Min(sc.sinceSync + delta, SYNC_RATE) >= interval } :
         \E scored \in { Scored(Moved(sc, hit, run, delta, syncNeeded)) } :
         \E sent \in { Synced(sc, hit, run, syncNeeded) \o scored.sent
                         \o << Message("paddleMove", [x |-> sc.paddleX]) >> } :
           /\ scenes' = [scenes EXCEPT ![c] = scored.scene]
           /\ did' = Did("frame", c, sent, hit.position, hit.collision, Suppressed(sc, hit, delta))
           /\ net' = [net EXCEPT !.up[c] = @ \o Carried(c, sent, all)]
  /\ UNCHANGED <<status, rooms, joined, tornDown, pre, last, emitted, nCreate, nRelay, single>>

\* socket.on('playerDisconnected')
playerDisconnected(sc) == [sc EXCEPT !.gameStatus = "finished"]

\* socket.on('scoreSync')
scoreSync(sc, newScore) == [sc EXCEPT !.score = newScore]

\* the next pending timer of c's scene fires
Timer(c) ==
  /\ c \in DOMAIN scenes /\ scenes[c].countdownTimers # <<>>
  /\ LET sc == scenes[c]
         timer == Head(sc.countdownTimers)
         rest == [sc EXCEPT !.countdownTimers = Tail(@)]
         direction == [x |-> 0, z |-> IF timer.lastScorer = "player1" THEN -10 ELSE 10]
     IN  IF timer.fires = "step" THEN
           /\ scenes' = [scenes EXCEPT ![c] = [rest EXCEPT !.countdown = timer.step]]
           /\ did' = [event |-> "timer", client |-> c, was |-> scenes, sent |-> <<>>,
                      landed |-> sc.ball, collision |-> "none", suppressed |-> FALSE]
         ELSE
           /\ scenes' = [scenes EXCEPT ![c] =
                           [rest EXCEPT !.countdown = NoCountdown, !.scoreCooldown = FALSE,
                                        !.sinceFpsUpdate = FPS_UPDATE, !.sinceSync = SYNC_RATE,
                                        !.ballDirection = IF sc.isHost THEN direction ELSE @]]
           /\ did' = [event |-> "timer", client |-> c, was |-> scenes, landed |-> sc.ball, collision |-> "none", suppressed |-> FALSE,
                      sent |-> IF sc.isHost
                               THEN << Message("ballUpdate",
                                         BallState([x |-> 0, z |-> 0], direction, BALL_SPEED)) >>
                               ELSE <<>>]
  /\ UNCHANGED <<status, rooms, joined, tornDown, pre, last, emitted, nCreate, nRelay, net, nFrame, single>>

\* useFrame in a match whose scoreUpdate messages are followed to the server
Frame(c, delta, keys) == FrameOf(c, delta, keys, FALSE)


\* the next message the server sent to c reaches c's scene
Deliver(c) ==
  /\ c \in DOMAIN scenes /\ net.down[c] # <<>>
  /\ LET m == Head(net.down[c])
         sc == scenes[c]
     IN  /\ scenes' = [scenes EXCEPT ![c] =
                         IF m.event = "scoreSync" THEN scoreSync(sc, m.data)
                         ELSE IF m.event = "playerDisconnected" THEN playerDisconnected(sc)
                         ELSE sc]
         /\ did' = [event |-> m.event, client |-> c, was |-> scenes, sent |-> <<>>,
                    landed |-> sc.ball, collision |-> "none", suppressed |-> FALSE]
  /\ net' = [net EXCEPT !.down[c] = Tail(@)]
  /\ UNCHANGED <<status, rooms, joined, tornDown, pre, last, emitted, nCreate, nRelay, nFrame, single>>

\* what the server's last handler emitted, put on its way to the clients
Downstream(down, out) ==
  [ c \in DOMAIN down |->
      down[c] \o [ i \in 1..Len(SelectSeq(out, LAMBDA m : m.to = c)) |->
                     Message(SelectSeq(out, LAMBDA m : m.to = c)[i].event,
                             SelectSeq(out, LAMBDA m : m.to = c)[i].data) ] ]

\* the server handles the next scoreUpdate that c sent
ServerTakes(c) ==
  /\ c \in DOMAIN net.up /\ net.up[c] # <<>>
  /\ LET m == Head(net.up[c])
     IN  ScoreUpdate(c, m.data.roomId, m.data.score)
  /\ Handled
  /\ net' = [up |-> [net.up EXCEPT ![c] = Tail(@)], down |-> Downstream(net.down, emitted')]
  /\ did' = [event |-> "server", client |-> c, was |-> scenes, sent |-> <<>>, landed |-> scenes[Host].ball, collision |-> "none", suppressed |-> FALSE]
  /\ UNCHANGED <<scenes, nCreate, nRelay, nFrame, single>>

\* the guest's connection drops: its page is gone, the server tears the room down
OpponentDrops ==
  /\ Guest \in DOMAIN scenes
  /\ Disconnect(Guest)
  /\ Handled
  /\ scenes' = [c \in DOMAIN scenes \ {Guest} |-> scenes[c]]
  /\ net' = [ up |-> [c \in DOMAIN net.up \ {Guest} |-> net.up[c]],
              down |-> Downstream([c \in DOMAIN net.down \ {Guest} |-> net.down[c]], emitted') ]
  /\ did' = [event |-> "drop", client |-> Guest, was |-> scenes, sent |-> <<>>, landed |-> scenes[Host].ball, collision |-> "none", suppressed |-> FALSE]
  /\ UNCHANGED <<nCreate, nRelay, nFrame, single>>

\* the room as the all-ready barrier leaves it
RoomAtStart ==
  [ id |-> MatchRoom, players |-> <<Host, Guest>>, isActive |-> TRUE,
    readyPlayers |-> {Host, Guest}, gameState |-> ReadyResetState(<<Host, Guest>>) ]

MatchAtStart ==
  /\ status = [s \in Sockets |-> IF s \in {Host, Guest} THEN "connected" ELSE "new"]
  /\ rooms = Put(<<>>, MatchRoom, RoomAtStart)
  /\ joined = [r \in generateRoomId |-> IF r = MatchRoom THEN {Host, Guest} ELSE {}]
  /\ tornDown = <<>>
  /\ pre = [rooms |-> rooms, joined |-> joined]
  /\ last = Op("init", 0, 0, NoData)
  /\ emitted = <<>>
  /\ nCreate = 0
  /\ nRelay = 0
  /\ \E z \in {10, -10} :
       scenes = [ c \in {Host, Guest} |->
                    SceneAtStart(c, IF c = Host THEN [x |-> 0, z |-> z] ELSE [x |-> 0, z |-> 10]) ]
  /\ net = [up |-> [c \in {Host, Guest} |-> <<>>], down |-> [c \in {Host, Guest} |-> <<>>]]
  /\ did = [event |-> "none", client |-> 0, was |-> scenes, sent |-> <<>>, landed |-> [x |-> 0, z |-> 0], collision |-> "none", suppressed |-> FALSE]
  /\ nFrame = 0

InitMatch == MatchAtStart /\ single = GameSceneAtStart

NextMatch ==
  \/ \E delta \in Deltas : nFrame < MaxFrames /\ Frame(Host, delta, "none")
  \/ \E c \in {Host, Guest} : Timer(c)
  \/ \E c \in {Host, Guest} : Deliver(c)
  \/ \E c \in {Host, Guest} : ServerTakes(c)
  \/ OpponentDrops

SpecMatch == InitMatch /\ [][NextMatch]_vars

\* the match with its timers: a callback passed to setTimeout does run
SpecMatchLive == SpecMatch /\ WF_vars(Timer(Host))

\* ------------------------------------------------------------ a session
\* Two pages in one room, from the lobby on: every message a scene emits is
\* followed to the server, and every message the server emits to a scene.

\* the arrow keys held down during a frame of a session
SessionKeys == { "right" }

\* frame deltas of a display that renders 60 frames a second, in milliseconds
FrameDeltas == { 16 }

\* the room with both participants in the lobby, as createRoom and joinRoom leave it
RoomInLobby ==
  [ id |-> MatchRoom, players |-> <<Host, Guest>>, isActive |-> FALSE, readyPlayers |-> {},
    gameState |-> [createGameState EXCEPT
                     !.paddles = Put(Put(@, Host, [x |-> 0, y |-> PADDLE_Y, z |-> HOST_Z]),
                                     Guest, [x |-> 0, y |-> PADDLE_Y, z |-> GUEST_Z])] ]

\* the scene as mounted: gameStatus 'waiting', ballDirection (0, 0, 1)
SceneInLobby(c) == [SceneAtStart(c, [x |-> 0, z |-> 10]) EXCEPT !.gameStatus = "waiting"]

\* socket.on('ballSync'): a state without a speed is ignored, and so is every
\* state on the host; the prediction adds direction * speed * (1 / 60)
ballSync(sc, ballState) ==
  IF ~sc.isHost /\ "speed" \in DOMAIN ballState /\ ballState.speed # 0
  THEN [sc EXCEPT !.ball = [ x |-> ballState.x + (ballState.direction.x * ballState.speed) \div (10 * 60),
                             z |-> ballState.z + (ballState.direction.z * ballState.speed) \div (10 * 60) ],
                  !.ballDirection = ballState.direction,
                  !.ballSpeed = ballState.speed]
  ELSE sc

\* socket.on('gameStart'): ball and paddles to their places; the host draws the
\* first direction and emits the first ballUpdate, whose state has the direction
\* as an object and no speed; then every scene emits ready
gameStart(sc, direction) ==
  [ scene |-> [sc EXCEPT !.ball = [x |-> 0, z |-> 0], !.paddleX = 0,
                         !.ballDirection = IF sc.isHost THEN direction ELSE @],
    sent |-> (IF sc.isHost
              THEN << Message("ballUpdate",
                        [ roomId |-> MatchRoom,
                          ballState |-> [x |-> 0, z |-> 0, direction |-> direction] ]) >>
              ELSE <<>>)
             \o << Message("ready", [roomId |-> MatchRoom]) >> ]

\* socket.on('allPlayersReady')
allPlayersReady(sc, c, data) ==
  LET opponents == { p \in DOMAIN data.gameState.paddles : p # c /\ Includes(data.players, p) }
  IN  [sc EXCEPT !.gameStatus = "playing",
                 !.score = [player1 |-> 0, player2 |-> 0],
                 !.ballSpeed = BALL_SPEED,
                 !.opponentX = IF opponents = {} THEN @
                               ELSE data.gameState.paddles[CHOOSE p \in opponents : TRUE].x]

\* socket.on('opponentPaddleMove') and socket.on('paddleSync')
opponentPaddleMove(sc, data) == [sc EXCEPT !.opponentX = data.position.x]
paddleSync(sc, data) == [sc EXCEPT !.opponentX = data.position.x]

\* the listeners of the scene for message m; the page's own listeners
\* (roomCreated, playerJoined, error) leave the scene alone
Listened(sc, c, m, direction) ==
  IF m.event = "gameStart" THEN gameStart(sc, direction)
  ELSE [ scene |-> IF m.event = "allPlayersReady" THEN allPlayersReady(sc, c, m.data)
                   ELSE IF m.event = "opponentPaddleMove" THEN opponentPaddleMove(sc, m.data)
                   ELSE IF m.event = "ballSync" THEN ballSync(sc, m.data)
                   ELSE IF m.event = "paddleSync" THEN paddleSync(sc, m.data)
                   ELSE IF m.event = "scoreSync" THEN scoreSync(sc, m.data)
                   ELSE IF m.event = "playerDisconnected" THEN playerDisconnected(sc)
                   ELSE sc,
         sent |-> <<>> ]

\* the next message the server sent to c reaches the listeners of c's scene
Receive(c) ==
  /\ c \in DOMAIN scenes /\ net.down[c] # <<>>
  /\ \E z \in {10, -10} :
       LET m == Head(net.down[c])
           heard == Listened(scenes[c], c, m, [x |-> 0, z |-> z])
       IN  /\ m.event # "gameStart" => z = 10
           /\ scenes' = [scenes EXCEPT ![c] = heard.scene]
           /\ net' = [ up |-> [net.up EXCEPT ![c] = @ \o heard.sent],
                       down |-> [net.down EXCEPT ![c] = Tail(@)] ]
           /\ did' = [ event |-> m.event, client |-> c, was |-> scenes, sent |-> heard.sent,
                       landed |-> heard.scene.ball, collision |-> "none", suppressed |-> FALSE,
                       got |-> m.data ]
  /\ UNCHANGED <<status, rooms, joined, tornDown, pre, last, emitted, nCreate, nRelay, nFrame, single>>

\* the events the server has a handler for
Handlers == { "startGame", "ready", "paddleMove", "ballUpdate", "scoreUpdate" }

\* the server takes the next message that c sent; an event without a handler
\* is received and nothing runs
Serve(c) ==
  /\ c \in DOMAIN net.up /\ net.up[c] # <<>>
  /\ LET m == Head(net.up[c])
     IN  /\ IF m.event = "startGame" THEN StartGame(c, m.data.roomId)
            ELSE IF m.event = "ready" THEN Ready(c, m.data.roomId)
            ELSE IF m.event = "paddleMove" THEN PaddleMove(c, m.data.roomId, m.data.position)
            ELSE IF m.event = "ballUpdate" THEN BallUpdate(c, m.data.roomId, m.data.ballState)
            ELSE IF m.event = "scoreUpdate" THEN ScoreUpdate(c, m.data.roomId, m.data.score)
            ELSE /\ last' = Op(m.event, c, m.data.roomId, m.data)
                 /\ emitted' = <<>>
                 /\ UNCHANGED <<status, rooms, joined, tornDown>>
         /\ did' = [ event |-> "server", client |-> c, was |-> scenes, sent |-> <<>>,
                     landed |-> scenes[Host].ball, collision |-> "none", suppressed |-> FALSE,
                     got |-> m ]
  /\ Handled
  /\ net' = [up |-> [net.up EXCEPT ![c] = Tail(@)], down |-> Downstream(net.down, emitted')]
  /\ UNCHANGED <<scenes, nCreate, nRelay, nFrame, single>>

\* the callback of setInterval(..., PADDLE_SYNC_INTERVAL) in c's scene; the
\* next one runs once the socket has sent the last
PaddleSyncInterval(c) ==
  /\ c \in DOMAIN scenes
  /\ \A i \in DOMAIN net.up[c] : net.up[c][i].event # "paddleSync"
  /\ LET sync == Message("paddleSync",
                   [ roomId |-> MatchRoom,
                     position |-> [x |-> scenes[c].paddleX, y |-> PADDLE_Y,
                                   z |-> IF c = Host THEN Player1Z ELSE Player2Z] ])
     IN  /\ net' = [net EXCEPT !.up[c] = @ \o << sync >>]
         /\ did' = [ event |-> "interval", client |-> c, was |-> scenes, sent |-> << sync >>,
                     landed |-> scenes[c].ball, collision |-> "none", suppressed |-> FALSE,
                     got |-> NoData ]
  /\ UNCHANGED <<status, rooms, joined, tornDown, pre, last, emitted, nCreate, nRelay,
                 scenes, nFrame, single>>

\* a frame of c's scene in a session: every message it emits is sent
SessionFrame(c, delta, keys) == FrameOf(c, delta, keys, TRUE)

\* the host has pressed Start Game in the lobby: startGame is on its way
InitSession ==
  /\ status = [s \in Sockets |-> IF s \in {Host, Guest} THEN "connected" ELSE "new"]
  /\ rooms = Put(<<>>, MatchRoom, RoomInLobby)
  /\ joined = [r \in generateRoomId |-> IF r = MatchRoom THEN {Host, Guest} ELSE {}]
  /\ tornDown = <<>>
  /\ pre = [rooms |-> rooms, joined |-> joined]
  /\ last = Op("init", 0, 0, NoData)
  /\ emitted = <<>>
  /\ nCreate = 0
  /\ nRelay = 0
  /\ scenes = [c \in {Host, Guest} |-> SceneInLobby(c)]
  /\ net = [ up |-> [c \in {Host, Guest} |->
                       IF c = Host THEN << Message("startGame", [roomId |-> MatchRoom]) >>
                       ELSE <<>>],
             down |-> [c \in {Host, Guest} |-> <<>>] ]
  /\ did = [ event |-> "none", client |-> 0, was |-> scenes, sent |-> <<>>,
             landed |-> [x |-> 0, z |-> 0], collision |-> "none", suppressed |-> FALSE,
             got |-> NoData ]
  /\ nFrame = 0
  /\ single = GameSceneAtStart

NextSession ==
  \/ \E c \in {Host, Guest} : Serve(c)
  \/ \E c \in {Host, Guest} : Receive(c)
  \/ \E c \in {Host, Guest} : PaddleSyncInterval(c)
  \/ \E c \in {Host, Guest}, delta \in FrameDeltas, keys \in SessionKeys :
       nFrame < MaxSessionFrames /\ SessionFrame(c, delta, keys)

SpecSession == InitSession /\ [][NextSession]_vars

\* the session with its network: socket.io delivers what was sent, in order,
\* while both connections stay up
SpecSessionLive ==
  /\ SpecSession
  /\ \A c \in {Host, Guest} : WF_vars(Serve(c)) /\ WF_vars(Receive(c))

\* a rally on a display that renders a frame every few milliseconds: the host's
\* frames with no key held, and the guest leaving
NextRally ==
  \/ \E delta \in FastDeltas : nFrame < MaxRallyFrames /\ Frame(Host, delta, "none")
  \/ \E c \in {Host, Guest} : Deliver(c)
  \/ OpponentDrops

SpecRally == InitMatch /\ [][NextRally]_vars

\* ------------------------------------------- the single-player GameScene
\* frame deltas of the single-player scene: Math.min(rawDelta, MAX_DELTA) on a
\* display of up to 144 Hz
GameDeltas == { MAX_DELTA }

\* where updatePhysics leaves the ball in a frame: on the court, beyond the
\* player's baseline (z <= -COURT_LENGTH/2 - BALL_RADIUS) or beyond the AI's
Ends == { "inside", "near", "far" }

Max(a, b) == IF a > b THEN a ELSE b
Sign(a) == IF a > 0 THEN 1 ELSE IF a < 0 THEN -1 ELSE 0
\* a quotient rounded toward zero
Quotient(a, b) == IF a >= 0 THEN a \div b ELSE -((-a) \div b)

\* gameInfo: the status the score gives the game
gameInfo(score) ==
  LET maxScore == Max(score.player1, score.player2)
      scoreDiff == Abs(score.player1 - score.player2)
  IN  IF maxScore >= WINNING_SCORE THEN
        IF maxScore = WINNING_SCORE - 1 THEN "gamePoint"
        ELSE IF scoreDiff >= 2 THEN "finished"
        ELSE IF score.player1 = score.player2 THEN "deuce"
        ELSE "gamePoint"
      ELSE "playing"

calculateSmoothMovement(delta, currentPos, targetPos, speed, velocity) ==
  LET direction == targetPos - currentPos
      distance == Abs(direction)
      accelerated == IF Abs(velocity) < speed
                     THEN velocity + Sign(direction) * ((((PADDLE_ACCELERATION * 60) \div 1000) * delta) \div 1000)
                     ELSE velocity
      decelerated == IF distance < 10000 /\ Abs(accelerated) > 0
                     THEN Quotient(accelerated * (10000 - (PADDLE_DECELERATION * delta) \div 1000000), 10000)
                     ELSE accelerated
      clamped == Clamp(decelerated, -speed, speed)
      newPos == currentPos + Quotient(clamped * delta * 60, 1000000)
  IN  IF distance < MOVEMENT_THRESHOLD THEN [position |-> currentPos, velocity |-> 0]
      ELSE [ position |-> Clamp(newPos, -(COURT_WIDTH \div 2) + PADDLE_WIDTH \div 2,
                                (COURT_WIDTH \div 2) - PADDLE_WIDTH \div 2),
             velocity |-> clamped ]

\* resetBall: the ball on the centre spot, the paddles at x = 0
resetBall(g) == [g EXCEPT !.ballAt = "centre", !.paddleX = 0]

\* the scene after the paddle and updatePhysics of a frame outside the cooldown
Played(g, keys, delta) ==
  LET targetX == g.paddleX + (IF keys \in {"left", "both"} THEN PADDLE_SPEED ELSE 0)
                           - (IF keys \in {"right", "both"} THEN PADDLE_SPEED ELSE 0)
      playerMovement == calculateSmoothMovement(delta, g.paddleX, targetX, PADDLE_SPEED, g.paddleVelocity)
  IN  [g EXCEPT !.paddleX = playerMovement.position,
                !.paddleVelocity = playerMovement.velocity,
                !.ballAt = "inplay"]

\* the scene after the scoring check that ends the frame: beyond a baseline the
\* new score, computed from the score this render saw, waits in a
\* requestAnimationFrame callback, and the ball is reset
Checked(g, end) ==
  LET scorer == IF end = "near" THEN "player2" ELSE "player1"
      newScore == [g.score EXCEPT ![scorer] = @ + 1]
  IN  IF end = "inside" THEN g
      ELSE resetBall([g EXCEPT !.pending = Append(@, [score |-> newScore, scorer |-> scorer, due |-> FALSE])])

\* useFrame of the single-player scene.  A frame that starts at the centre spot
\* cannot carry the ball to a baseline; a callback requested in the frame before
\* runs right after this frame, before the next
GameFrame(keys, delta, end) ==
  /\ single.gameStatus # "finished"
  /\ \A i \in DOMAIN single.pending : ~single.pending[i].due
  /\ end # "inside" =>
       /\ single.cooldown = 0 /\ single.ballAt = "inplay"
       /\ single.score.player1 + single.score.player2 + Len(single.pending) < MaxPoints
  /\ \E g \in { [single EXCEPT !.pending = [i \in DOMAIN @ |-> [@[i] EXCEPT !.due = TRUE]]] } :
       IF g.cooldown > 0
       THEN single' = [g EXCEPT !.cooldown = Max(0, @ - delta),
                                !.ballAt = IF Max(0, g.cooldown - delta) = 0 THEN "centre" ELSE @]
       ELSE single' = Checked(Played(g, keys, delta), end)
  /\ did' = Did("gameFrame", 0, <<>>, [x |-> 0, z |-> 0], "none", FALSE)
  /\ UNCHANGED <<status, rooms, joined, tornDown, pre, last, emitted, nCreate, nRelay, scenes, net>>

\* the requestAnimationFrame callback of a point, with the render and the
\* effect that follow setScore: the status becomes gameInfo's
ScoreCallback ==
  /\ single.pending # <<>>
  /\ single' = [single EXCEPT !.score = Head(single.pending).score,
                              !.lastScorer = Head(single.pending).scorer,
                              !.cooldown = COOLDOWN_TIME,
                              !.gameStatus = gameInfo(Head(single.pending).score),
                              !.pending = Tail(@)]
  /\ did' = Did("gameCallback", 0, <<>>, [x |-> 0, z |-> 0], "none", FALSE)
  /\ UNCHANGED <<status, rooms, joined, tornDown, pre, last, emitted, nCreate, nRelay, scenes, net, nFrame>>

\* the space bar on a finished game
resetGame ==
  /\ single.gameStatus = "finished"
  /\ single' = resetBall([single EXCEPT !.score = [player1 |-> 0, player2 |-> 0],
                                        !.gameStatus = "playing",
                                        !.cooldown = COOLDOWN_TIME,
                                        !.lastScorer = Null])
  /\ did' = Did("resetGame", 0, <<>>, [x |-> 0, z |-> 0], "none", FALSE)
  /\ UNCHANGED <<status, rooms, joined, tornDown, pre, last, emitted, nCreate, nRelay, scenes, net, nFrame>>

NextSingle ==
  \/ \E delta \in GameDeltas, end \in Ends : GameFrame("none", delta, end) /\ UNCHANGED nFrame
  \/ ScoreCallback
  \/ resetGame

SpecSingle == Init /\ [][NextSingle]_vars

\* paddles and velocities the single-player scene can have in the middle of a
\* rally
GameScenesInPlay ==
  { [GameSceneAtStart EXCEPT !.cooldown = 0, !.ballAt = "inplay", !.paddleX = x, !.paddleVelocity = v] :
      x \in {0, 39000, -39000}, v \in {0, PADDLE_SPEED, -PADDLE_SPEED} }

InitPaddles == MatchAtStart /\ single \in GameScenesInPlay

\* the frames of one client, either of the two, under every state of the arrow
\* keys; no message is carried here, so what the other scene renders meanwhile
\* changes nothing for this one
NextPaddles ==
  \/ \E c \in {Host, Guest}, delta \in Deltas, keys \in Keys :
       /\ nFrame < MaxPaddleFrames
       /\ \A o \in DOMAIN scenes \ {c} : scenes[o].sinceFpsUpdate = FPS_UPDATE
       /\ did.event # "gameFrame" /\ single.paddleX = 0 /\ single.paddleVelocity = 0
       /\ Frame(c, delta, keys)
  \/ \E delta \in GameDeltas, keys \in Keys :
       /\ nFrame < MaxGameFrames /\ nFrame' = nFrame + 1
       /\ did.event # "frame"
       /\ GameFrame(keys, delta, "inside")

SpecPaddles == InitPaddles /\ [][NextPaddles]_vars

\* ------------------------------------------------ vocabulary of the claims
\* the handler that ran last, its sender and the room id its message named
Ran(op) == last.op = op
Sender == last.sender
Named == last.roomId

\* the room the message named, as the handler found it
WasRegistered == Named \in DOMAIN pre.rooms
Found == pre.rooms[Named]

\* the server state the handlers share is as it was before the handler ran
ServerUnchanged == rooms = pre.rooms /\ joined = pre.joined

\* exactly this one message went out: an error to the sender and to nobody else
OnlyErrorToSender(msg) ==
  emitted = <<[to |-> Sender, event |-> "error", data |-> msg, via |-> Sender]>>

\* the messages named ev that connection c was sent by the last handler
Received(c, ev) == SelectSeq(emitted, LAMBDA m : m.to = c /\ m.event = ev)

NoneEmitted(ev) == \A i \in DOMAIN emitted : emitted[i].event # ev

Distinct(players) == Cardinality(Range(players)) = Len(players)

\* ------------------------------------------------------------------ claims
\* C1: a joinRoom naming a room that already has 2 participants is answered
\* with 'Room is full', one naming an id that is not registered with 'Room not
\* found', in both cases to the sender only, with no room, paddle or membership
\* changed and no playerJoined emitted.
C1_JoinRejected ==
  Ran("joinRoom") =>
    /\ (WasRegistered /\ Len(Found.players) = 2) =>
          OnlyErrorToSender("Room is full") /\ ServerUnchanged
    /\ ~WasRegistered =>
          OnlyErrorToSender("Room not found") /\ ServerUnchanged

\* a third connection is turned away from a room of two others
C1_Witness ==
  /\ Ran("joinRoom") /\ WasRegistered
  /\ Len(Found.players) = 2 /\ Distinct(Found.players)
  /\ ~Includes(Found.players, Sender)
  /\ OnlyErrorToSender("Room is full")

\* C2: a ballUpdate from any connection other than the named room's participant
\* at index 0 changes no stored state, is relayed to nobody and draws no error.
C2_GuestBallIgnored ==
  (Ran("ballUpdate") /\ ~(WasRegistered /\ Found.players[1] = Sender)) =>
    ServerUnchanged /\ emitted = <<>>

\* the guest of a two-player room sent a ball that differs from the stored one
C2_Witness ==
  /\ Ran("ballUpdate") /\ WasRegistered
  /\ Len(Found.players) = 2 /\ Found.players[2] = Sender /\ Found.players[1] # Sender
  /\ Found.gameState.ball # last.arg
  /\ rooms[Named].gameState.ball = Found.gameState.ball

\* C3: when a participant disconnects, every room it is listed in is marked
\* inactive and leaves the registry in that step, whatever state the room was
\* in; each other participant of such a room is sent exactly one
\* playerDisconnected for it, and the disconnecting connection is sent nothing.
C3_DisconnectTearsDown ==
  Ran("disconnect") =>
    /\ \A r \in DOMAIN pre.rooms :
         Includes(pre.rooms[r].players, Sender) =>
           /\ r \notin DOMAIN rooms
           /\ r \in DOMAIN last.arg /\ ~last.arg[r].isActive
           /\ \A c \in Range(pre.rooms[r].players) \ {Sender} :
                Len(SelectSeq(Received(c, "playerDisconnected"), LAMBDA m : m.via = r)) = 1
    /\ \A i \in DOMAIN emitted : emitted[i].to # Sender

\* the guest left a room that was playing, after a score had been recorded
C3_Witness ==
  /\ Ran("disconnect")
  /\ \E r \in DOMAIN pre.rooms :
       /\ pre.rooms[r].isActive
       /\ Len(pre.rooms[r].players) = 2 /\ Distinct(pre.rooms[r].players)
       /\ pre.rooms[r].players[2] = Sender
       /\ pre.rooms[r].readyPlayers = Range(pre.rooms[r].players)
       /\ pre.rooms[r].gameState.score # [player1 |-> 0, player2 |-> 0]
       /\ r \notin DOMAIN rooms
       /\ Len(Received(pre.rooms[r].players[1], "playerDisconnected")) = 1

\* the six client messages that name a room id
NamesRoom == last.op \in {"joinRoom", "startGame", "ready", "paddleMove", "ballUpdate", "scoreUpdate"}

\* C4 as claimed: after a disconnect has torn a room down, every message of a
\* former participant that names the old id, of every type, is answered with
\* 'Room not found' and changes no server state.
C4_AsClaimed ==
  (NamesRoom /\ Named \in DOMAIN tornDown /\ Includes(tornDown[Named], Sender)) =>
    OnlyErrorToSender("Room not found") /\ ServerUnchanged

\* C4, amended: an id a disconnect has torn down is not registered until a
\* createRoom registers it again; until then a joinRoom, startGame or ready
\* naming it is answered with 'Room not found' to the sender only, a paddleMove,
\* ballUpdate or scoreUpdate naming it is dropped with no answer at all, and
\* none of them changes server state.
C4_TornDownId ==
  /\ DOMAIN tornDown \cap DOMAIN rooms = {}
  /\ (NamesRoom /\ Named \in DOMAIN tornDown) =>
       /\ ServerUnchanged
       /\ IF last.op \in {"joinRoom", "startGame", "ready"}
          THEN OnlyErrorToSender("Room not found")
          ELSE emitted = <<>>

\* the survivor of a torn-down room sent a late paddleMove for it
C4_Witness ==
  /\ Ran("paddleMove") /\ Named \in DOMAIN tornDown
  /\ Includes(tornDown[Named], Sender)
  /\ Len(tornDown[Named]) = 2 /\ Distinct(tornDown[Named])
  /\ emitted = <<>> /\ ServerUnchanged

\* C5 as claimed: a startGame from a sender that is not the participant at
\* index 0 is answered with 'Only host can start the game', one on a room with
\* fewer than two participants with 'Not enough players to start game'; to the
\* requester only, with no gameStart and no room changed.
C5_AsClaimed ==
  (Ran("startGame") /\ WasRegistered) =>
    /\ Sender # Found.players[1] =>
         OnlyErrorToSender("Only host can start the game") /\ ServerUnchanged
    /\ Len(Found.players) < 2 =>
         OnlyErrorToSender("Not enough players to start game") /\ ServerUnchanged

\* C5, amended: on a registered room with fewer than two participants a
\* startGame is answered with 'Not enough players to start game' whoever sends
\* it; on a room with two participants a startGame from a sender that is not the
\* participant at index 0 is answered with 'Only host can start the game'; to
\* the requester only, with no gameStart and no room changed.
C5_StartRejected ==
  (Ran("startGame") /\ WasRegistered) =>
    /\ Len(Found.players) < 2 =>
         OnlyErrorToSender("Not enough players to start game") /\ ServerUnchanged
    /\ (Len(Found.players) = 2 /\ Sender # Found.players[1]) =>
         OnlyErrorToSender("Only host can start the game") /\ ServerUnchanged

\* the guest of a two-player room asked to start the game
C5_Witness ==
  /\ Ran("startGame") /\ WasRegistered
  /\ Len(Found.players) = 2 /\ Distinct(Found.players) /\ Found.players[2] = Sender
  /\ OnlyErrorToSender("Only host can start the game")
  /\ ~rooms[Named].isActive

\* the gameStart the handler owes the participant in slot i of the named room
GameStartFor(i) ==
  [ to |-> Found.players[i], event |-> "gameStart", via |-> Found.players[i],
    data |-> [ gameState |-> Found.gameState, players |-> Found.players,
               isHost |-> (i = 1), playerIndex |-> i - 1 ] ]

\* C6: when the participant at index 0 sends startGame on a room with two
\* participants, the room becomes active, its readySet empty, and exactly two
\* gameStart go out, one per slot: to index 0 with isHost=true, playerIndex=0,
\* to index 1 with isHost=false, playerIndex=1.  So each of two connections
\* receives exactly one, with its own role.
C6_StartGame ==
  (Ran("startGame") /\ WasRegistered /\ Len(Found.players) = 2 /\ Found.players[1] = Sender) =>
    /\ rooms[Named].isActive
    /\ rooms[Named].readyPlayers = {}
    /\ emitted = <<GameStartFor(1), GameStartFor(2)>>
    /\ Distinct(Found.players) =>
         /\ Received(Found.players[1], "gameStart") = <<GameStartFor(1)>>
         /\ Received(Found.players[2], "gameStart") = <<GameStartFor(2)>>

\* the host started a room of two connections; the guest got its one gameStart
C6_Witness ==
  /\ Ran("startGame") /\ WasRegistered
  /\ Len(Found.players) = 2 /\ Distinct(Found.players) /\ Found.players[1] = Sender
  /\ ~Found.isActive /\ rooms[Named].isActive
  /\ Len(Received(Found.players[2], "gameStart")) = 1
  /\ ~Received(Found.players[2], "gameStart")[1].data.isHost

\* the game state C7 promises after the barrier
FreshState(gs) ==
  /\ gs.score = [player1 |-> 0, player2 |-> 0]
  /\ gs.ball.x = 0 /\ gs.ball.z = 0
  /\ gs.ball.direction = [x |-> 0, y |-> 0, z |-> 0]
  /\ \A c \in DOMAIN gs.paddles : gs.paddles[c].x = 0

\* the distinct participants that have signaled since the last startGame, this
\* ready included
Signaled == Found.readyPlayers \cup {Sender}

\* C7: in an active room, a ready after which both participants have signaled
\* (in either order) resets the game state (score 0:0, ball at the origin with
\* zero direction, both paddles at x=0) and sends each participant exactly one
\* allPlayersReady carrying that state; a ready after which only one distinct
\* participant has signaled sends no allPlayersReady and resets nothing.
C7_ReadyBarrier ==
  (Ran("ready") /\ WasRegistered /\ Found.isActive /\ Includes(Found.players, Sender)) =>
    /\ Signaled \subseteq Range(Found.players)
    /\ IF Cardinality(Signaled) = 2
       THEN /\ FreshState(rooms[Named].gameState)
            /\ DOMAIN rooms[Named].gameState.paddles = Range(Found.players)
            /\ \A c \in Range(Found.players) :
                 Received(c, "allPlayersReady") =
                   <<[ to |-> c, event |-> "allPlayersReady", via |-> Named,
                       data |-> [ gameState |-> rooms[Named].gameState,
                                  players |-> Found.players ] ]>>
       ELSE /\ NoneEmitted("allPlayersReady")
            /\ rooms[Named].gameState = Found.gameState

\* the second of two participants signaled, after the host had moved the ball,
\* and the guest was sent the reset state
C7_Witness ==
  /\ Ran("ready") /\ WasRegistered /\ Found.isActive
  /\ Distinct(Found.players) /\ Found.readyPlayers = {Found.players[2]}
  /\ Sender = Found.players[1]
  /\ Found.gameState.ball \in BallStates
  /\ FreshState(rooms[Named].gameState)
  /\ Len(Received(Found.players[2], "allPlayersReady")) = 1

\* C8: a ready is rejected with an explicit failure sent to the signaler only,
\* the first of these that applies: 'Room not found' if the id is unknown,
\* 'Game not started yet' if the room is not active, 'Player not in room' if the
\* signaler is not a participant; readySet and game state stay as they were and
\* nothing is broadcast.
C8_ReadyRejected ==
  Ran("ready") =>
    /\ ~WasRegistered => OnlyErrorToSender("Room not found") /\ ServerUnchanged
    /\ (WasRegistered /\ ~Found.isActive) =>
         OnlyErrorToSender("Game not started yet") /\ ServerUnchanged
    /\ (WasRegistered /\ Found.isActive /\ ~Includes(Found.players, Sender)) =>
         OnlyErrorToSender("Player not in room") /\ ServerUnchanged

\* a connection outside a started room of two others signaled ready for it
C8_Witness ==
  /\ Ran("ready") /\ WasRegistered /\ Found.isActive
  /\ Distinct(Found.players) /\ ~Includes(Found.players, Sender)
  /\ OnlyErrorToSender("Player not in room")

C10_ScoreUpdate ==
  Ran("scoreUpdate") =>
    IF WasRegistered /\ Found.players[1] = Sender
    THEN /\ rooms[Named].gameState.score = last.arg
         /\ \A c \in Range(Found.players) :
              Received(c, "scoreSync") =
                <<[to |-> c, event |-> "scoreSync", data |-> last.arg, via |-> Named]>>
    ELSE ServerUnchanged /\ emitted = <<>>

\* the host of a two-player room reported a score that was not the stored one
C10_Witness ==
  /\ Ran("scoreUpdate") /\ WasRegistered
  /\ Len(Found.players) = 2 /\ Distinct(Found.players) /\ Found.players[1] = Sender
  /\ Found.gameState.score # last.arg
  /\ Len(Received(Sender, "scoreSync")) = 1
  /\ Len(Received(Found.players[2], "scoreSync")) = 1

\* C11: a paddleMove from a sender with a paddle in the named room stores the
\* position under the sender's own identity, leaving every other paddle as it
\* was, and sends each other participant exactly one opponentPaddleMove naming
\* the sender, and the sender none; from a sender without a paddle there it
\* changes nothing and nothing is emitted.
C11_PaddleMove ==
  Ran("paddleMove") =>
    IF WasRegistered /\ Sender \in DOMAIN Found.gameState.paddles
    THEN /\ rooms[Named].gameState.paddles[Sender] = last.arg
         /\ DOMAIN rooms[Named].gameState.paddles = DOMAIN Found.gameState.paddles
         /\ \A c \in DOMAIN Found.gameState.paddles \ {Sender} :
              rooms[Named].gameState.paddles[c] = Found.gameState.paddles[c]
         /\ \A c \in Range(Found.players) \ {Sender} :
              Received(c, "opponentPaddleMove") =
                <<[ to |-> c, event |-> "opponentPaddleMove", via |-> Named,
                    data |-> [playerId |-> Sender, position |-> last.arg] ]>>
         /\ \A i \in DOMAIN emitted : emitted[i].to # Sender
    ELSE ServerUnchanged /\ emitted = <<>>

\* the guest of a two-player room moved its paddle and the host was told
C11_Witness ==
  /\ Ran("paddleMove") /\ WasRegistered
  /\ Len(Found.players) = 2 /\ Distinct(Found.players) /\ Found.players[2] = Sender
  /\ Found.gameState.paddles[Sender] # last.arg
  /\ rooms[Named].gameState.paddles[Sender] = last.arg
  /\ Len(Received(Found.players[1], "opponentPaddleMove")) = 1

\* C12: createRoom registers the new room under an id that was not in the
\* registry, and every room that was registered is still there, unaltered.
C12_CreateKeepsRooms ==
  Ran("createRoom") =>
    /\ ~WasRegistered
    /\ \A r \in DOMAIN pre.rooms : r \in DOMAIN rooms /\ rooms[r] = pre.rooms[r]

\* C13: each connection is listed in the participants of at most one
\* registered room.
C13_OneRoomEach ==
  \A s \in Sockets :
    Cardinality({ r \in DOMAIN rooms : Includes(rooms[r].players, s) }) <= 1

\* C14: every registered room has at most 2 participants; a room enters the
\* registry with its creator as its only participant; from then on the
\* participant at index 0 stays, and a handler only ever appends to the list.
C14_Participants ==
  \A r \in DOMAIN rooms :
    /\ Len(rooms[r].players) \in 1..2
    /\ IF Ran("createRoom") /\ Named = r
       THEN rooms[r].players = <<Sender>>
       ELSE /\ r \in DOMAIN pre.rooms
            /\ rooms[r].players[1] = pre.rooms[r].players[1]
            /\ SubSeq(rooms[r].players, 1, Len(pre.rooms[r].players)) = pre.rooms[r].players

\* a second connection joined: the creator is still first, the newcomer second
C14_Witness ==
  /\ Ran("joinRoom") /\ WasRegistered
  /\ Len(Found.players) = 1 /\ Sender # Found.players[1]
  /\ rooms[Named].players = <<Found.players[1], Sender>>

\* the last handler was a ready that opened the barrier
BarrierFired == Ran("ready") /\ ~NoneEmitted("allPlayersReady")

\* C15: the readySet is empty after a successful startGame and empty again
\* after the all-ready barrier has fired, so every allPlayersReady takes a
\* fresh ready from both participants.
C15_ReadySetCleared ==
  /\ (Ran("startGame") /\ WasRegistered /\ rooms[Named].isActive /\ ~NoneEmitted("gameStart")) =>
       rooms[Named].readyPlayers = {}
  /\ BarrierFired =>
       /\ rooms[Named].readyPlayers = {}
       /\ Found.readyPlayers \cup {Sender} = Range(Found.players)
       /\ Sender \notin Found.readyPlayers

\* ------------------------------------------------------- claims of a match
\* the host's scene before and after the last step, and the thresholds
HostWas == did.was[Host]
HostNow == scenes[Host]
BeyondFar(z) == z >= (COURT_LENGTH \div 2) + BALL_RADIUS
BeyondNear(z) == z <= -(COURT_LENGTH \div 2) - BALL_RADIUS
Players == {"player1", "player2"}

\* C16: within a match no score counter, in the room's stored score or in the
\* score a client displays, decreases from one state to the next, whatever the
\* interleaving of the host's scoring, its scoreUpdate messages and the
\* scoreSync echoes.
C16_ScoresNeverDecrease ==
  /\ \A c \in DOMAIN scenes \cap DOMAIN did.was : \A p \in Players :
       scenes[c].score[p] >= did.was[c].score[p]
  /\ (MatchRoom \in DOMAIN rooms /\ MatchRoom \in DOMAIN pre.rooms) =>
       \A p \in Players :
         rooms[MatchRoom].gameState.score[p] >= pre.rooms[MatchRoom].gameState.score[p]

\* C17: a frame that ends with the ball at or beyond +courtLength/2 + ballRadius
\* credits player1, one that ends at or beyond -courtLength/2 - ballRadius
\* credits player2: that counter goes up by exactly one, the other stays, and
\* exactly one scoreUpdate, carrying the new score, is emitted; every frame
\* begins with the ball between the thresholds, so no later frame sees the same
\* crossing, and no other frame and no timer changes the score or emits a
\* scoreUpdate.
C17_ScoredOncePerCrossing ==
  /\ (did.event = "frame" /\ did.client = Host) =>
       /\ ~BeyondFar(HostWas.ball.z) /\ ~BeyondNear(HostWas.ball.z)
       /\ BeyondFar(did.landed.z) =>
            /\ HostNow.score = [HostWas.score EXCEPT !.player1 = @ + 1]
            /\ ScoreUpdates(did.sent) =
                 << Message("scoreUpdate", [roomId |-> MatchRoom, score |-> HostNow.score]) >>
       /\ BeyondNear(did.landed.z) =>
            /\ HostNow.score = [HostWas.score EXCEPT !.player2 = @ + 1]
            /\ ScoreUpdates(did.sent) =
                 << Message("scoreUpdate", [roomId |-> MatchRoom, score |-> HostNow.score]) >>
       /\ (~BeyondFar(did.landed.z) /\ ~BeyondNear(did.landed.z)) =>
            HostNow.score = HostWas.score /\ ScoreUpdates(did.sent) = <<>>
  /\ (did.event = "timer" /\ did.client = Host) =>
       HostNow.score = HostWas.score /\ ScoreUpdates(did.sent) = <<>>

\* after a point and its serve the ball passed the host's paddle within the
\* sub-steps of one frame, and player2 was credited once
C17_Witness ==
  /\ did.event = "frame" /\ BeyondNear(did.landed.z)
  /\ HostWas.score.player1 + HostWas.score.player2 >= 1
  /\ HostNow.score.player2 = HostWas.score.player2 + 1
  /\ Len(ScoreUpdates(did.sent)) = 1

\* C18: in every state of the host's simulation the ball's speed lies within
\* [BALL_SPEED, MAX_BALL_SPEED].
C18_SpeedWithinRange ==
  Host \in DOMAIN scenes =>
    HostNow.ballSpeed >= BALL_SPEED /\ HostNow.ballSpeed <= MAX_BALL_SPEED

\* C19: the timers a score started are cancelled as a set when something
\* supersedes them: once the client has processed playerDisconnected none of
\* them fires, and a newer score leaves only its own countdown pending.
C19_TimersCancelled ==
  /\ did.event = "timer" => did.was[did.client].gameStatus # "finished"
  /\ (did.event = "frame" /\ ScoreUpdates(did.sent) # <<>>) =>
       HostNow.countdownTimers = CountdownTimers(HostWas)

\* C20: an event that arrives without its payload object is answered with an
\* error to its sender; the server keeps running: every other connection, the
\* registry and the socket.io membership are as they were.
C20_HandlersGuarded ==
  Ran("uncaught") =>
    /\ \E i \in DOMAIN emitted : emitted[i].to = Sender /\ emitted[i].event = "error"
    /\ \A i \in DOMAIN emitted : emitted[i].to = Sender
    /\ ServerUnchanged
    /\ \A c \in Sockets : status[c] # "closed" \/ c = Sender

\* C21: removing a room is idempotent: when a participant of a room that an
\* earlier disconnect removed disconnects in turn, the id stays unregistered,
\* nothing is emitted for it, and if the connection is in no registered room
\* the registry is left as it was and nothing is emitted at all.
C21_RemovalIdempotent ==
  Ran("disconnect") =>
    \A r \in DOMAIN tornDown :
      (r \notin DOMAIN pre.rooms /\ Includes(tornDown[r], Sender)) =>
         /\ r \notin DOMAIN rooms
         /\ \A i \in DOMAIN emitted : emitted[i].via # r
         /\ (\A q \in DOMAIN pre.rooms : ~Includes(pre.rooms[q].players, Sender)) =>
              (rooms = pre.rooms /\ emitted = <<>>)

\* the guest of a room of two disconnects after the host's disconnect removed
\* the room, while another room is registered
C21_Witness ==
  /\ Ran("disconnect")
  /\ \E r \in DOMAIN tornDown :
       /\ r \notin DOMAIN pre.rooms /\ Len(tornDown[r]) = 2 /\ tornDown[r][2] = Sender
  /\ rooms = pre.rooms /\ emitted = <<>>

\* C22: a room is not active from its creation until a successful startGame,
\* and a ready, ballUpdate or scoreUpdate that names a room that is not active
\* changes nothing in the room and is relayed to nobody.
C22_ActiveGoverns ==
  /\ (Ran("createRoom") /\ Named \in DOMAIN rooms) => ~rooms[Named].isActive
  /\ (WasRegistered /\ Named \in DOMAIN rooms /\ ~Found.isActive /\ rooms[Named].isActive) =>
       Ran("startGame")
  /\ ((Ran("ready") \/ Ran("ballUpdate") \/ Ran("scoreUpdate")) /\ WasRegistered /\ ~Found.isActive) =>
       /\ rooms = pre.rooms
       /\ NoneEmitted("allPlayersReady") /\ NoneEmitted("ballSync") /\ NoneEmitted("scoreSync")

\* the default paddles of the two sides
HostPaddle == [x |-> 0, y |-> PADDLE_Y, z |-> HOST_Z]
GuestPaddle == [x |-> 0, y |-> PADDLE_Y, z |-> GUEST_Z]

\* C23: createRoom answers the creator, and nobody else, with roomCreated
\* carrying the new id and players = [host], and gives the host the default
\* paddle at z = -9; a successful joinRoom of a second connection makes it the
\* second participant, gives it the default paddle at z = +9 and leaves the
\* host's paddle alone, and the host and the guest each receive one
\* playerJoined with players = [host, guest] and the room's game state.
C23_CreateAndJoin ==
  /\ Ran("createRoom") =>
       /\ emitted = << [to |-> Sender, event |-> "roomCreated", via |-> Sender,
                        data |-> [roomId |-> Named, players |-> <<Sender>>]] >>
       /\ rooms[Named].players = <<Sender>>
       /\ rooms[Named].gameState.paddles = Put(<<>>, Sender, HostPaddle)
  /\ (Ran("joinRoom") /\ WasRegistered /\ Len(Found.players) = 1 /\ Found.players[1] # Sender) =>
       LET host == Found.players[1]
       IN  /\ rooms[Named].players = <<host, Sender>>
           /\ rooms[Named].gameState.paddles = Put(Found.gameState.paddles, Sender, GuestPaddle)
           /\ host \in DOMAIN Found.gameState.paddles
           /\ \A c \in {host, Sender} :
                /\ Len(Received(c, "playerJoined")) = 1
                /\ Received(c, "playerJoined")[1].data =
                     [players |-> <<host, Sender>>, gameState |-> rooms[Named].gameState]

\* a second connection joined the room the first one created, both paddles at
\* their defaults
C23_Witness ==
  /\ Ran("joinRoom") /\ WasRegistered /\ Len(Found.players) = 1 /\ Found.players[1] # Sender
  /\ rooms[Named].gameState.paddles =
       Put(Put(<<>>, Found.players[1], HostPaddle), Sender, GuestPaddle)
  /\ Len(Received(Found.players[1], "playerJoined")) = 1

\* C24: in the room's stored game state a paddle keeps the y and z of its side:
\* a joinRoom of another connection, a paddleMove that carries the sender's own
\* y and z, and a ready leave the y and z of every stored paddle as they were.
C24_PaddleSideFixed ==
  ( /\ WasRegistered /\ Named \in DOMAIN rooms
    /\ \/ Ran("joinRoom") /\ ~Includes(Found.players, Sender)
       \/ Ran("ready")
       \/ /\ Ran("paddleMove") /\ Sender \in DOMAIN Found.gameState.paddles
          /\ last.arg.y = Found.gameState.paddles[Sender].y
          /\ last.arg.z = Found.gameState.paddles[Sender].z ) =>
    \A p \in DOMAIN Found.gameState.paddles :
      /\ p \in DOMAIN rooms[Named].gameState.paddles
      /\ rooms[Named].gameState.paddles[p].y = Found.gameState.paddles[p].y
      /\ rooms[Named].gameState.paddles[p].z = Found.gameState.paddles[p].z

\* the range the clamp allows the local paddle: [-courtWidth/2 + paddleHalfWidth,
\* courtWidth/2 - paddleHalfWidth]
InCourt(x) ==
  /\ x >= -(COURT_WIDTH \div 2) + PADDLE_WIDTH \div 2
  /\ x <= (COURT_WIDTH \div 2) - PADDLE_WIDTH \div 2

\* C25: after every frame of a client's game loop the local paddle's x lies
\* within [-4, 4], and so does the x of every paddleMove the frame emitted,
\* whatever keys were held and whatever the scene was before.
C25_PaddleInCourt ==
  /\ \A c \in DOMAIN scenes : InCourt(scenes[c].paddleX)
  /\ InCourt(single.paddleX)
  /\ did.event = "frame" =>
       \A i \in DOMAIN PaddleMoves(did.sent) : InCourt(PaddleMoves(did.sent)[i].data.x)

\* a key was held at the edge: the paddle moved by less than moveDelta and
\* stopped at the limit, which the frame's paddleMove carries
C25_Witness ==
  /\ did.event = "frame"
  /\ Abs(scenes[did.client].paddleX) = (COURT_WIDTH \div 2) - PADDLE_WIDTH \div 2
  /\ Abs(scenes[did.client].paddleX - did.was[did.client].paddleX) \in 1..(MoveDelta(200) - 1)
  /\ did.sent # <<>> /\ did.sent[Len(did.sent)] = Message("paddleMove", [x |-> scenes[did.client].paddleX])

\* C28: the frame cooldown of checkPaddleCollision hides a paddle intersection
\* only in the frame of the last recognized paddle collision itself (fewer
\* than COLLISION_COOLDOWN_FRAMES = 1 frames later); that frame ends its loop at
\* the collision, so no rendered frame has a paddle intersection hidden by the
\* cooldown, across the resets of frameCount.
C28_CooldownBounded == did.event = "frame" => ~did.suppressed

\* C29: a host frame whose physics detected a collision, wall or paddle, emits
\* a ballUpdate in that frame, whether or not the regular sync is due.
C29_CollisionSyncs ==
  did.event = "frame" /\ did.collision # "none" => BallUpdates(did.sent) # <<>>

\* C30: every frame rendered while the game is playing emits exactly one
\* paddleMove, carrying the client's clamped paddle x of that frame, on the
\* host and on the guest, the frames after a paddle collision included.
C30_PaddleMoveEveryFrame ==
  did.event = "frame" =>
    PaddleMoves(did.sent) =
      << Message("paddleMove", [x |-> Rendered(did.was[did.client], 0, "none").paddleX]) >>

\* the squared magnitude of a direction: the server stores components in
\* units, the host's scene in tenths
SquaredLength(direction) ==
  direction.x * direction.x + direction.z * direction.z
    + (IF "y" \in DOMAIN direction THEN direction.y * direction.y ELSE 0)

\* C26: the ball direction has magnitude 1 in every stored game state: in the
\* ball of every registered room after every server operation, and in the
\* host's scene after every physics step.
C26_UnitDirection ==
  /\ \A r \in DOMAIN rooms : SquaredLength(rooms[r].gameState.ball.direction) = 1
  /\ \A c \in DOMAIN scenes : scenes[c].isHost => SquaredLength(scenes[c].ballDirection) = 100

\* C27: the single-player game is 'finished' exactly when a player's score has
\* reached WINNING_SCORE: finished as soon as either score is 11 or more, and
\* never finished before that.
C27_FinishedAtWinningScore ==
  single.gameStatus = "finished"
    <=> Max(single.score.player1, single.score.player2) >= WINNING_SCORE

\* C37: every connection listed as a participant of a registered room is
\* connected: once a connection's disconnect has been processed no registered
\* room lists it, however many rooms it had created or joined.
C37_ParticipantsConnected ==
  \A r \in DOMAIN rooms : \A i \in DOMAIN rooms[r].players :
    status[rooms[r].players[i]] = "connected"

\* a connection listed in two registered rooms, the guest of one of them,
\* disconnected: both rooms are gone
C37_Witness ==
  /\ Ran("disconnect")
  /\ \E q, r \in DOMAIN pre.rooms :
       /\ q # r
       /\ pre.rooms[q].players[1] = Sender
       /\ Len(pre.rooms[r].players) = 2 /\ pre.rooms[r].players[2] = Sender
       /\ pre.rooms[r].players[1] # Sender
       /\ q \notin DOMAIN rooms /\ r \notin DOMAIN rooms

\* C38: the two participants of a room are distinct connections, whatever
\* requests were made.
C38_ParticipantsDistinct ==
  \A r \in DOMAIN rooms : Distinct(rooms[r].players)

\* the messages the server addresses to a room's participants
RoomScoped ==
  {"playerJoined", "opponentPaddleMove", "ballSync", "scoreSync", "allPlayersReady", "playerDisconnected"}

\* the participants of room r a message of event ev is meant for: those of
\* the room the disconnect removed for playerDisconnected, else those listed
\* now
Listed(r, ev) ==
  LET registry == IF ev = "playerDisconnected" THEN pre.rooms ELSE rooms
  IN  IF r \in DOMAIN registry THEN Range(registry[r].players) ELSE {}

\* C39: a connection is sent a room-scoped message only for a room that lists
\* it as a participant; the survivor of a torn-down room is sent nothing more
\* for that room id, even when the id is registered again.
C39_OnlyParticipantsReceive ==
  \A i \in DOMAIN emitted :
    emitted[i].event \in RoomScoped => emitted[i].to \in Listed(emitted[i].via, emitted[i].event)

\* everything of room r but its game state is as the handler found it
RoomKept(r) ==
  /\ rooms[r].id = pre.rooms[r].id
  /\ rooms[r].players = pre.rooms[r].players
  /\ rooms[r].isActive = pre.rooms[r].isActive
  /\ rooms[r].readyPlayers = pre.rooms[r].readyPlayers

\* C40: a relay handler changes only its own part of the named room: a
\* paddleMove only the sender's paddle, a ballUpdate only the stored ball, a
\* scoreUpdate only the stored score; the participants, the active flag, the
\* readySet, the rest of the game state and every other room stay as they were.
C40_RelayFrame ==
  (Ran("paddleMove") \/ Ran("ballUpdate") \/ Ran("scoreUpdate")) =>
    /\ DOMAIN rooms = DOMAIN pre.rooms
    /\ joined = pre.joined
    /\ \A r \in DOMAIN rooms : r # Named => rooms[r] = pre.rooms[r]
    /\ WasRegistered =>
         /\ RoomKept(Named)
         /\ Ran("paddleMove") =>
              /\ rooms[Named].gameState.ball = Found.gameState.ball
              /\ rooms[Named].gameState.score = Found.gameState.score
              /\ DOMAIN rooms[Named].gameState.paddles = DOMAIN Found.gameState.paddles
              /\ \A p \in DOMAIN Found.gameState.paddles :
                   p # Sender => rooms[Named].gameState.paddles[p] = Found.gameState.paddles[p]
         /\ Ran("ballUpdate") =>
              /\ rooms[Named].gameState.paddles = Found.gameState.paddles
              /\ rooms[Named].gameState.score = Found.gameState.score
         /\ Ran("scoreUpdate") =>
              /\ rooms[Named].gameState.paddles = Found.gameState.paddles
              /\ rooms[Named].gameState.ball = Found.gameState.ball

\* the guest of a room of two moved its paddle: its entry is the new position,
\* the host's entry is the one the handler found
C40_Witness ==
  /\ Ran("paddleMove") /\ WasRegistered
  /\ Len(Found.players) = 2 /\ Distinct(Found.players) /\ Found.players[2] = Sender
  /\ rooms[Named].gameState.paddles[Sender] = last.arg
  /\ Found.gameState.paddles[Sender] # last.arg
  /\ rooms[Named].gameState.paddles[Found.players[1]] = Found.gameState.paddles[Found.players[1]]
  /\ Found.gameState.paddles[Found.players[1]] # last.arg

\* the host's scene is in the cooldown that follows a point
HostCooling == Host \in DOMAIN scenes /\ scenes[Host].scoreCooldown

Centre == [x |-> 0, z |-> 0]

\* the final timer of the countdown has just run on the host
CountdownCompleted ==
  /\ did.event = "timer" /\ did.client = Host
  /\ did.was[Host].scoreCooldown /\ ~scenes[Host].scoreCooldown

\* while the host is in the cooldown its ball is at the centre and none of its
\* frames advances it; the timer that ends the cooldown emits the serve and
\* nothing else
C31_Frozen ==
  /\ HostCooling => scenes[Host].ball = Centre
  /\ (did.event = "frame" /\ did.client = Host) => ~did.was[Host].scoreCooldown
  /\ CountdownCompleted =>
       /\ scenes[Host].countdown = NoCountdown
       /\ scenes[Host].ball = Centre
       /\ Len(did.sent) = 1 /\ did.sent[1].event = "ballUpdate"
       /\ did.sent[1].data.x = 0 /\ did.sent[1].data.z = 0
       /\ did.sent[1].data.speed = BALL_SPEED

\* C31: after a scoring event the host's physics does not advance the ball,
\* which stays at the centre, until the countdown completes; the countdown does
\* complete: the cooldown flag is cleared and the host emits one serve
\* ballUpdate from the centre at base speed, after which its frames run again.
C31_CooldownThenServe ==
  /\ []C31_Frozen
  /\ HostCooling ~> CountdownCompleted

\* a frame of the host moved the ball again after a point and its countdown
C31_Witness ==
  /\ did.event = "frame" /\ did.client = Host
  /\ did.was[Host].lastScorer # Null /\ ~did.was[Host].scoreCooldown
  /\ did.was[Host].ball = Centre /\ did.landed # Centre

\* C33: when the countdown completes, the z component of the serve is negative
\* if the point that started the countdown was scored by player1 and positive
\* if it was scored by player2, for every point of a match including the first.
C33_ServeByScorer ==
  CountdownCompleted =>
    /\ scenes[Host].lastScorer = "player1" => did.sent[1].data.direction.z < 0
    /\ scenes[Host].lastScorer = "player2" => did.sent[1].data.direction.z > 0

\* the upper bound of a frame's delta in frames of 60 Hz: Math.min(delta * 60, 2)
DeltaCapFrames == 2

\* C35: the host's physics clamps the frame's delta to an upper bound before
\* integrating the ball: whatever the raw delta, the ball's displacement in a
\* frame is no larger than the displacement for the bound, the two frames of
\* 60 Hz to which the frame caps its delta.
C35_DeltaClamped ==
  (did.event = "frame" /\ did.client = Host /\ did.collision = "none" /\ ~did.suppressed) =>
    Abs(did.landed.z - did.was[Host].ball.z)
      <= (Abs(did.was[Host].ballDirection.z) * DeltaCapFrames * did.was[Host].ballSpeed) \div 10

\* both scenes are playing and the room has both ready signals
BothPlaying ==
  /\ \A c \in {Host, Guest} : c \in DOMAIN scenes /\ scenes[c].gameStatus = "playing"
  /\ rooms[MatchRoom].isActive /\ rooms[MatchRoom].readyPlayers = {Host, Guest}

\* C32: once the host has sent startGame on a room of two participants, with
\* both connections up and every message delivered, the room reaches Playing:
\* allPlayersReady reaches both scenes and both set gameStatus to 'playing',
\* in whatever order the two ready signals and the host's first ballUpdate
\* reach the server.
C32_ReachesPlaying == <>BothPlaying

\* allPlayersReady has just reached the second of the two scenes
C32_Witness ==
  /\ BothPlaying /\ did.event = "allPlayersReady"
  /\ did.was[did.client].gameStatus = "waiting"

\* the distance the host's integration moves the ball in one frame of 1/60 s:
\* speed * stepDelta * 60 in each of the frame's sub-steps
FrameDisplacement(speed) == Min(speed, Steps(speed) * MAX_MOVE_PER_FRAME)

\* C34: on every ballSync the guest's scene sets its ball to the received
\* position advanced by the displacement of one frame of the host's
\* integration along the received direction, and adopts the received direction
\* and speed; the host's scene never changes its ball on ballSync.
C34_BallSyncPrediction ==
  (did.event = "ballSync" /\ "speed" \in DOMAIN did.got) =>
    LET was == did.was[did.client]
        now == scenes[did.client]
    IN  IF did.client = Host
        THEN now.ball = was.ball /\ now.ballDirection = was.ballDirection
             /\ now.ballSpeed = was.ballSpeed
        ELSE /\ now.ball.x = did.got.x + (did.got.direction.x * FrameDisplacement(did.got.speed)) \div 10
             /\ now.ball.z = did.got.z + (did.got.direction.z * FrameDisplacement(did.got.speed)) \div 10
             /\ now.ballDirection = did.got.direction
             /\ now.ballSpeed = did.got.speed

\* C36: the paddle re-synchronization works end to end: a paddleSync that a
\* participant emits is relayed by the server to the other participant, whose
\* scene then holds the sender's paddle x as its opponent's.
C36_PaddleSyncRelayed ==
  (did.event = "server" /\ did.got.event = "paddleSync") =>
    \E i \in DOMAIN emitted :
      /\ emitted[i].event = "paddleSync" /\ emitted[i].to # did.client
      /\ emitted[i].data.position.x = did.got.data.position.x

====
